---- MODULE Spec2Model ----
(***************************************************************************)
(* The ordered multi-operation runner of backend/app.py                    *)
(* (run_all_operations and its nested execute_operation), together with    *)
(* the endpoint envelope its self-addressed HTTP calls receive and the      *)
(* progress channel (socketio.emit) it notifies.                           *)
(*                                                                         *)
(* A JSON object (a Python dict) is a function from its keys to its        *)
(* values: a key a dict does not hold is a key outside its DOMAIN.  The    *)
(* runner is one thread of control; `pc` is its position in the handler,   *)
(* and every call that leaves the process (the database clear, an HTTP     *)
(* request, an emission on the channel) is a step whose outcome the        *)
(* environment chooses.                                                    *)
(***************************************************************************)
EXTENDS Integers, Sequences, FiniteSets, TLC

VARIABLES
    client,         \* db_ops.client is set (database.py:27, 34)
    test_operations,\* the catalog the run iterates (app.py:603)
    pc,             \* position of the run_all_operations handler
    index,          \* loop variable of `for index, ... in enumerate(test_operations, 1)`
    total_ops,      \* app.py:730
    completed,      \* app.py:731
    results,        \* app.py:592
    response,       \* the response of the current self-addressed request (app.py:761-764)
    raised,         \* str(e) of the exception the except block of execute_operation holds
    inflight,       \* self-addressed requests sent and not yet answered
    requests,       \* every self-addressed request sent, in order: <<method, endpoint>>
    answers,        \* how each of them ended, in order: the response, or the fault
    events,         \* every 'progress' event the channel accepted, in order
    emit_failed,    \* number of emissions of this run that raised
    clear_failed,   \* db_ops.clear_collection() raised and was swallowed (app.py:597-600)
    now,            \* time.time(), in clock ticks
    start_time,     \* app.py:594
    op_start,       \* app.py:743
    op_time,        \* app.py:766, 796
    summary,        \* app.py:837
    http_response,  \* what the /api/run_all request is answered with
    collection,     \* the name of db_ops.collection (database.py:33, 393; app.py:504)
    collections,    \* the collections of the database, by name
    exchange,       \* the last request to an operation route and how it went
    calls,          \* requests clients sent to the operation routes
    runs,           \* POST /api/run_all requests served or being served
    previous,       \* the results of the run before this one, <<>> when a client
                    \* request was served since
    handlers        \* the run_all requests being handled at once, each with its
                    \* position, its results and the database as its last step left it

vars == <<client, test_operations, pc, index, total_ops, completed, results,
          response, raised, inflight, requests, answers, events,
          emit_failed, clear_failed, now, start_time, op_start, op_time, summary,
          http_response,
         collection, collections, exchange, calls, runs, previous, handlers>>

\* The database, the handle on it, and the history of the requests served.
dbvars == <<collection, collections, exchange, calls, runs, previous, handlers>>

----------------------------------------------------------------------------
(* Bounds of the model. *)

\* Longest catalog a run iterates.
MaxOps == 2
\* The clock stops advancing at this tick.
MaxClock == 1
\* A client sends at most this many requests to the operation routes.
MaxCalls == 2
\* POST /api/run_all is served at most this many times.
MaxRuns == 2
\* A collection holds at most this many documents.
MaxDocs == 9
\* This many POST /api/run_all requests are handled at the same time.
MaxConcurrent == 2
\* Longest catalog the runs handled at the same time iterate.
MaxConcurrentOps == 3

----------------------------------------------------------------------------
(* JSON values. *)

\* Python's None / JSON null.
None == [null |-> TRUE]

\* {}
EmptyDict == [k \in {} |-> None]

\* dict.get(key, default)
Get(d, key, default) == IF key \in DOMAIN d THEN d[key] ELSE default

\* dict.get(key)
GetOrNone(d, key) == Get(d, key, None)

----------------------------------------------------------------------------
(* The operation catalog: (op_name, endpoint, payload) triples, in source  *)
(* order.  A payload keeps its top-level fields; a field's value is kept   *)
(* where it is a scalar and named by a token where it is a document.       *)

\* === 1. INSERT OPERATIONS ===
InsertOps ==
    << [name |-> "insert_one", endpoint |-> "/api/insert_one",
        payload |-> [document |-> "Alice Johnson"]],
       [name |-> "insert_many", endpoint |-> "/api/insert_many",
        payload |-> [documents |-> "Bob..Fiona"]],
       [name |-> "insert", endpoint |-> "/api/insert",
        payload |-> [document |-> "George Wilson"]],
       [name |-> "save", endpoint |-> "/api/save",
        payload |-> [document |-> "Hannah Lee"]] >>

\* === 2. FIND OPERATIONS ===
FindOps ==
    << [name |-> "find", endpoint |-> "/api/find",
        payload |-> [filter |-> "status=active,salary>=70000", limit |-> 50]],
       [name |-> "find_one", endpoint |-> "/api/find_one",
        payload |-> [filter |-> "age>=40 or salary>=100000"]],
       [name |-> "find_one_and_delete", endpoint |-> "/api/find_one_and_delete",
        payload |-> [filter |-> "status=inactive"]],
       [name |-> "find_one_and_replace", endpoint |-> "/api/find_one_and_replace",
        payload |-> [filter |-> "email=diana@example.com",
                     replacement |-> "Diana Ross-Smith"]],
       [name |-> "find_one_and_update", endpoint |-> "/api/find_one_and_update",
        payload |-> [filter |-> "department=Sales", update |-> "set last_activity"]],
       [name |-> "find_and_modify", endpoint |-> "/api/find_and_modify",
        payload |-> [filter |-> "salary>=100000", update |-> "set high_earner"]] >>

\* === 3. UPDATE OPERATIONS ===
UpdateOps ==
    << [name |-> "update_one", endpoint |-> "/api/update_one",
        payload |-> [filter |-> "name=Alice Johnson",
                     update |-> "set status,inc salary"]],
       [name |-> "update_many", endpoint |-> "/api/update_many",
        payload |-> [filter |-> "department=Engineering",
                     update |-> "set review_pending"]],
       [name |-> "update", endpoint |-> "/api/update",
        payload |-> [filter |-> "name=Bob Smith", update |-> "set address"]],
       [name |-> "replace_one", endpoint |-> "/api/replace_one",
        payload |-> [filter |-> "name=Fiona Garcia", replacement |-> "Fiona Garcia"]] >>

\* === 4. DELETE OPERATIONS ===
DeleteOps ==
    << [name |-> "delete_one", endpoint |-> "/api/delete_one",
        payload |-> [filter |-> "status=temporary"]],
       [name |-> "delete_many", endpoint |-> "/api/delete_many",
        payload |-> [filter |-> "department=Intern"]],
       [name |-> "remove", endpoint |-> "/api/remove",
        payload |-> [filter |-> "name=NonExistent User"]] >>

\* === 5. COUNT OPERATIONS ===
CountOps ==
    << [name |-> "count_documents", endpoint |-> "/api/count_documents",
        payload |-> [filter |-> "department=Engineering"]],
       [name |-> "estimated_document_count",
        endpoint |-> "/api/estimated_document_count",
        payload |-> EmptyDict],
       [name |-> "count", endpoint |-> "/api/count",
        payload |-> [filter |-> "salary>=80000"]] >>

\* === 6. AGGREGATION OPERATIONS (group is skipped) ===
AggregationOps ==
    << [name |-> "aggregate", endpoint |-> "/api/aggregate",
        payload |-> [pipeline |-> "match,group,sort"]],
       [name |-> "map_reduce", endpoint |-> "/api/map_reduce",
        payload |-> [map |-> "emit(department,salary)", reduce |-> "Array.sum",
                     out |-> "salary_by_dept"]],
       [name |-> "inline_map_reduce", endpoint |-> "/api/inline_map_reduce",
        payload |-> [map |-> "emit(department,1)", reduce |-> "Array.sum"]] >>

\* === 7. INDEX OPERATIONS ===
IndexOps ==
    << [name |-> "create_index", endpoint |-> "/api/create_index",
        payload |-> [keys |-> <<<<"email", 1>>>>]],
       [name |-> "create_indexes", endpoint |-> "/api/create_indexes",
        payload |-> [indexes |-> << [keys |-> <<<<"department", 1>>, <<"salary", -1>>>>],
                                    [keys |-> <<<<"status", 1>>>>] >>]],
       [name |-> "ensure_index", endpoint |-> "/api/ensure_index",
        payload |-> [keys |-> <<<<"age", 1>>>>]],
       [name |-> "reindex", endpoint |-> "/api/reindex", payload |-> EmptyDict],
       [name |-> "drop_index", endpoint |-> "/api/drop_index",
        payload |-> [index_name |-> "email_1"]],
       [name |-> "drop_indexes", endpoint |-> "/api/drop_indexes", payload |-> EmptyDict] >>

\* === 8. COLLECTION OPERATIONS ===
CollectionOps ==
    << [name |-> "distinct", endpoint |-> "/api/distinct",
        payload |-> [field |-> "department"]],
       [name |-> "rename", endpoint |-> "/api/rename",
        payload |-> [new_name |-> "test_collection_backup"]] >>

\* === 9. BULK OPERATIONS ===
BulkOps ==
    << [name |-> "bulk_write", endpoint |-> "/api/bulk_write",
        payload |-> [operations |->
            << [insertOne |-> [document |-> "Bulk User 1"]],
               [updateOne |-> [filter |-> "name=Bulk User 1",
                               update |-> "set bulk_tested"]],
               [deleteOne |-> [filter |-> "name=Bulk User 1"]] >>]] >>

\* === 10. DROP COLLECTION ===
DropOps ==
    << [name |-> "drop", endpoint |-> "/api/drop", payload |-> EmptyDict] >>

\* The sections with the collection operations moved before the index ones.
CatalogCollectionFirst ==
    InsertOps \o FindOps \o UpdateOps \o DeleteOps \o CountOps
        \o AggregationOps \o CollectionOps \o IndexOps \o BulkOps \o DropOps

\* The sections with the bulk operations left out.
CatalogWithoutBulk ==
    InsertOps \o FindOps \o UpdateOps \o DeleteOps \o CountOps
        \o AggregationOps \o IndexOps \o CollectionOps \o DropOps

\* test_operations (app.py:603-728).
Catalog ==
    InsertOps \o FindOps \o UpdateOps \o DeleteOps \o CountOps
        \o AggregationOps \o IndexOps \o CollectionOps \o BulkOps \o DropOps

\* What GET /api/operations answers (app.py:566-580).
ListOperations ==
    [success |-> TRUE,
     operations |->
        [insert |-> <<"insert_one", "insert_many", "insert", "save">>,
         find |-> <<"find", "find_one", "find_one_and_delete",
                    "find_one_and_replace", "find_one_and_update",
                    "find_and_modify">>,
         update |-> <<"update_one", "update_many", "update", "replace_one">>,
         delete |-> <<"delete_one", "delete_many", "remove">>,
         count |-> <<"count", "count_documents", "estimated_document_count">>,
         aggregation |-> <<"aggregate", "group", "map_reduce", "inline_map_reduce">>,
         index |-> <<"create_index", "create_indexes", "ensure_index",
                     "drop_index", "drop_indexes", "reindex">>,
         collection |-> <<"distinct", "rename", "drop">>,
         bulk |-> <<"bulk_write">>],
     total |-> 35]

\* The catalogs a run of the model iterates: the windows of the source
\* catalog that are at most MaxOps long and start at one of its groups.
GroupStarts == {1, 19}

Catalogs ==
    { SubSeq(Catalog, s, s + n - 1) :
        s \in GroupStarts, n \in 0 .. MaxOps }

----------------------------------------------------------------------------
(* An operation endpoint, as every handler of app.py is written:           *)
(*   try:    result = db_ops.<op>(...); return {"success": True, "data": result} *)
(*   except: return {"success": False, "error": str(e)}, 500               *)

\* What a db_ops method returns: a dict naming its operation.
DriverResult(op_name) == [operation |-> op_name]

\* str(e) of what the driver raises.
DriverError == "PyMongoError"

ApiEndpoint(op_name, driver) ==
    IF driver = "ok"
    THEN [status_code |-> 200, text |-> "json",
          json |-> [success |-> TRUE, data |-> DriverResult(op_name)]]
    ELSE [status_code |-> 500, text |-> "json",
          json |-> [success |-> FALSE, error |-> DriverError]]

\* An answer with an empty body, which no handler of app.py writes and
\* which execute_operation reads as {} (`response.json() if response.text else {}`).
BareResponse == [status_code |-> 502, text |-> "", json |-> EmptyDict]

\* No response yet.
NoResponse == [status_code |-> 0, text |-> "", json |-> EmptyDict]

\* str(e) of what http_requests.get/post raises when the call cannot complete.
TransportError == "ConnectionError"

\* str(e) of what socketio.emit raises.
ChannelError == "EmitError"

\* The responses a self-addressed request can receive.
Responses(op_name) ==
    { ApiEndpoint(op_name, d) : d \in {"ok", "raise"} } \cup { BareResponse }

\* 'GET' for the one endpoint that requires it, 'POST' otherwise.
Method(op_name) == IF op_name = "estimated_document_count" THEN "GET" ELSE "POST"

\* f'HTTP {response.status_code}'
HTTPText(status_code) ==
    "HTTP " \o ToString(status_code)

----------------------------------------------------------------------------
(* execute_operation and the summary, as pure functions of what they read. *)

\* (time.time() - op_start) * 1000
ElapsedMs(from, to) == (to - from) * 1000

\* result_entry of the try block (app.py:768-776).
ResultEntry(op_name, resp, elapsed) ==
    LET result_data == IF resp.text # "" THEN resp.json ELSE EmptyDict
        entry == [operation |-> op_name,
                  success |-> (resp.status_code = 200),
                  result |-> IF resp.status_code = 200
                             THEN GetOrNone(result_data, "result")
                             ELSE None,
                  execution_time_ms |-> elapsed]
    IN  IF resp.status_code # 200
        THEN [k \in DOMAIN entry \cup {"error"} |->
                IF k = "error"
                THEN Get(result_data, "error", HTTPText(resp.status_code))
                ELSE entry[k]]
        ELSE entry

\* result_entry of the except block (app.py:798-803).
FaultEntry(op_name, e, elapsed) ==
    [operation |-> op_name, success |-> FALSE, error |-> e,
     execution_time_ms |-> elapsed]

\* The 'operation_start' event (app.py:746-752).
OperationStartEvent(op_name, i, total) ==
    [type |-> "operation_start", operation |-> op_name, current |-> i,
     total |-> total]

\* The 'operation_complete' event of the try block (app.py:783-791).
OperationCompleteEvent(op_name, resp, done, total, elapsed) ==
    [type |-> "operation_complete", operation |-> op_name,
     success |-> (resp.status_code = 200), current |-> done, total |-> total,
     execution_time_ms |-> elapsed]

\* The 'operation_complete' event of the except block (app.py:810-819).
OperationErrorEvent(op_name, e, done, total, elapsed) ==
    [type |-> "operation_complete", operation |-> op_name, success |-> FALSE,
     current |-> done, total |-> total, execution_time_ms |-> elapsed,
     error |-> e]

\* sum(1 for r in results if r["success"])
RECURSIVE CountSuccess(_)
CountSuccess(rs) ==
    IF rs = <<>> THEN 0
    ELSE (IF Head(rs).success THEN 1 ELSE 0) + CountSuccess(Tail(rs))

\* A summary that takes its total from the catalog instead of the results.
\* The sum of the elapsed times the entries of rs carry.
RECURSIVE SumTimes(_)
SumTimes(rs) ==
    IF rs = <<>> THEN 0
    ELSE rs[1].execution_time_ms + SumTimes(Tail(rs))

SummarySumOfTimes(rs, total_time) ==
    LET successful == CountSuccess(rs)
    IN  [total_operations |-> Len(rs), successful |-> successful,
         failed |-> Len(rs) - successful, total_time_ms |-> SumTimes(rs)]

SummaryFromCatalog(rs, total_time) ==
    LET successful == CountSuccess(rs)
    IN  [total_operations |-> total_ops, successful |-> successful,
         failed |-> total_ops - successful, total_time_ms |-> total_time]

\* The summary (app.py:834-842).
Summary(rs, total_time) ==
    LET successful == CountSuccess(rs)
        failed == Len(rs) - successful
    IN  [total_operations |-> Len(rs), successful |-> successful,
         failed |-> failed, total_time_ms |-> total_time]

\* Where the handler is once execute_operation(i, ...) has returned or its
\* exception has been caught by the loop (app.py:825-829): at the next
\* descriptor, or past the loop.
AfterOperation(i, total) == IF i < total THEN "operation_start" ELSE "summary"

\* A dispatch that hands the request to a worker and returns to the loop.
AfterSendAsync == IF index < total_ops THEN "operation_start" ELSE "summary"

\* Where execute_operation is once its request is sent: blocked in
\* http_requests.get/post until the answer or the fault (app.py:760-763).
AfterSend == "await"

----------------------------------------------------------------------------
(* The operation endpoints over a model of the collection.                 *)
(*                                                                         *)
(* Documents, filters, updates and pipelines are the tokens of the         *)
(* catalog; "{}" and "[]" stand for the empty dict and the empty list. A   *)
(* value the driver returns is tagged with its type: [oid |-> n] is an     *)
(* ObjectId, [str |-> s] a string, [num |-> n] a number, [bool |-> b],     *)
(* [doc |-> f] a dict, [list |-> s] a list, None.                          *)

ObjectId(n) == [oid |-> n]
Str(s) == [str |-> s]
Num(n) == [num |-> n]
Bool(b) == [bool |-> b]
Doc(f) == [doc |-> f]
List(s) == [list |-> s]

IsOid(v) == "oid" \in DOMAIN v

\* str(v), for the values the reshaping code applies it to.
PyStr(v) ==
    IF IsOid(v) THEN Str(ToString(v.oid))
    ELSE IF "null" \in DOMAIN v THEN Str("None")
    ELSE v

\* The value holds an ObjectId somewhere.
RECURSIVE HasOid(_)
HasOid(v) ==
    IF IsOid(v) THEN TRUE
    ELSE IF "doc" \in DOMAIN v THEN \E k \in DOMAIN v.doc : HasOid(v.doc[k])
    ELSE IF "list" \in DOMAIN v THEN \E i \in DOMAIN v.list : HasOid(v.list[i])
    ELSE FALSE

\* The value with every ObjectId replaced by its string.
RECURSIVE Stringified(_)
Stringified(v) ==
    IF IsOid(v) THEN PyStr(v)
    ELSE IF "doc" \in DOMAIN v
         THEN Doc([k \in DOMAIN v.doc |-> Stringified(v.doc[k])])
    ELSE IF "list" \in DOMAIN v
         THEN List([i \in DOMAIN v.list |-> Stringified(v.list[i])])
    ELSE v

\* The collections of the database the model follows.
Names == {"test_collection", "test_collection_backup"}

\* A collection that does not exist; one that does is [n, indexes]: how
\* many documents it holds and the names of its indexes (but _id_).
Absent == [absent |-> TRUE]
Exists(c) == "n" \in DOMAIN c
Count(c) == IF Exists(c) THEN c.n ELSE 0
Indexes(c) == IF Exists(c) THEN c.indexes ELSE {}

Min(a, b) == IF a < b THEN a ELSE b

\* The i-th document of a collection, as the driver returns it.
StoredDoc(i) == Doc([_id |-> ObjectId(i), name |-> Str("user")])
StoredDocs(k) == List([i \in 1 .. k |-> StoredDoc(i)])

\* bool(token): the empty dict and the empty list are falsy.
Truthy(token) == token \notin {"{}", "[]"}

\* The documents a `documents` token lists.
IsList(token) == token \in {"[]", "Bob..Fiona"}
DocCount(token) == IF token = "[]" THEN 0 ELSE IF token = "Bob..Fiona" THEN 5 ELSE 1

\* How many documents of n a filter may match: {} matches all of them.
Matched(filter, n) == IF filter = "{}" THEN {n} ELSE 0 .. n

\* pymongo's name of an index on keys: field_direction, joined by "_".
RECURSIVE IndexName(_)
IndexName(keys) ==
    IF Len(keys) = 1
    THEN keys[1][1] \o "_" \o ToString(keys[1][2])
    ELSE keys[1][1] \o "_" \o ToString(keys[1][2]) \o "_" \o IndexName(Tail(keys))

\* The keys by which api_bulk_write recognises an entry of `operations` in
\* MongoDB style, and the values of 'type' by which it recognises one in
\* the legacy style (app.py:521-544).
BulkKinds == {"insertOne", "updateOne", "updateMany", "deleteOne",
              "deleteMany", "replaceOne"}
LegacyTypes == {"insert", "update", "delete", "replace"}

\* An entry of `operations` that is not a JSON object, and the test for one
\* that is.
Scalar(v) == [scalar |-> v]
IsObject(op) == "scalar" \notin DOMAIN op

\* What one turn of the loop of api_bulk_write makes of an entry: a pymongo
\* request, nothing, or the exception of a subscript whose key is missing.
Skipped == [skipped |-> TRUE]
Request(class, spec, fields) ==
    IF fields \subseteq DOMAIN spec THEN [request |-> class]
    ELSE [raises |-> "KeyError"]
IsRequest(turn) == "request" \in DOMAIN turn

\* The turn of the loop for one entry (app.py:521-544). On an entry that is
\* not an object, `in` or .get raises.
BulkOp(op) ==
    IF ~IsObject(op) THEN [raises |-> "AttributeError"]
    ELSE IF "insertOne" \in DOMAIN op THEN Request("InsertOne", op.insertOne, {})
    ELSE IF "updateOne" \in DOMAIN op
    THEN Request("UpdateOne", op.updateOne, {"filter", "update"})
    ELSE IF "updateMany" \in DOMAIN op
    THEN Request("UpdateMany", op.updateMany, {"filter", "update"})
    ELSE IF "deleteOne" \in DOMAIN op
    THEN Request("DeleteOne", op.deleteOne, {"filter"})
    ELSE IF "deleteMany" \in DOMAIN op
    THEN Request("DeleteMany", op.deleteMany, {"filter"})
    ELSE IF "replaceOne" \in DOMAIN op
    THEN Request("ReplaceOne", op.replaceOne, {"filter", "replacement"})
    ELSE IF "type" \notin DOMAIN op THEN Skipped
    ELSE IF op.type = "insert" THEN Request("InsertOne", op, {"document"})
    ELSE IF op.type = "update" THEN Request("UpdateOne", op, {"filter", "update"})
    ELSE IF op.type = "delete" THEN Request("DeleteOne", op, {"filter"})
    ELSE IF op.type = "replace"
    THEN Request("ReplaceOne", op, {"filter", "replacement"})
    ELSE Skipped

\* The index specifications api_create_indexes recognises (app.py:406-420).
IsIndexSpec(spec) == "keys" \in DOMAIN spec \/ "field" \in DOMAIN spec
IndexKeys(spec) ==
    IF "keys" \in DOMAIN spec THEN spec.keys
    ELSE << <<spec.field, Get(spec, "direction", 1)>> >>

\* The document count after pymongo's bulk_write has applied the requests
\* in order, each update or delete matching when a document is there.
RECURSIVE BulkCount(_, _)
BulkCount(reqs, n) ==
    IF reqs = <<>> THEN n
    ELSE BulkCount(Tail(reqs),
            IF reqs[1] = "InsertOne" THEN n + 1
            ELSE IF reqs[1] = "DeleteOne" /\ n > 0 THEN n - 1
            ELSE IF reqs[1] = "DeleteMany" THEN 0
            ELSE n)

RECURSIVE CountKind(_, _)
CountKind(reqs, kind) ==
    IF reqs = <<>> THEN 0
    ELSE (IF reqs[1] = kind THEN 1 ELSE 0) + CountKind(Tail(reqs), kind)

\* What the body of the route makes of the request: the db_ops method and
\* its arguments, the 400 it answers itself, or the exception one of its
\* own statements raises. An argument that is None is left out of args.
BadRequest(msg) == [bad_request |-> msg]
RouteRaises(e) == [route_raises |-> e]
Call(method, args) == [method |-> method, args |-> args]
Optional(data, key, name) ==
    IF key \in DOMAIN data THEN [k \in {name} |-> data[key]] ELSE EmptyDict
With(args, more) ==
    [k \in DOMAIN args \cup DOMAIN more |->
        IF k \in DOMAIN more THEN more[k] ELSE args[k]]

Route(endpoint, data) ==
    CASE endpoint = "/api/insert_one" ->
            Call("insert_one", [document |-> Get(data, "document", "{}")])
      [] endpoint = "/api/insert_many" ->
            Call("insert_many", [documents |-> Get(data, "documents", "[]")])
      [] endpoint = "/api/insert" ->
            IF "documents" \in DOMAIN data /\ Truthy(data.documents)
            THEN Call("insert", [doc_or_docs |-> data.documents])
            ELSE IF "document" \in DOMAIN data
            THEN Call("insert", [doc_or_docs |-> data.document])
            ELSE BadRequest("Missing 'document' or 'documents' field")
      [] endpoint = "/api/save" ->
            Call("save", [document |-> Get(data, "document", "{}")])
      [] endpoint = "/api/find" ->
            Call("find", With([filter_query |-> Get(data, "filter", "{}"),
                               limit |-> Get(data, "limit", 10)],
                              Optional(data, "projection", "projection")))
      [] endpoint = "/api/find_one" ->
            Call("find_one", With([filter_query |-> Get(data, "filter", "{}")],
                                  Optional(data, "projection", "projection")))
      [] endpoint = "/api/find_one_and_delete" ->
            Call("find_one_and_delete", [filter_query |-> Get(data, "filter", "{}")])
      [] endpoint = "/api/find_one_and_replace" ->
            Call("find_one_and_replace",
                 [filter_query |-> Get(data, "filter", "{}"),
                  replacement |-> Get(data, "replacement", "{}")])
      [] endpoint = "/api/find_one_and_update" ->
            Call("find_one_and_update",
                 [filter_query |-> Get(data, "filter", "{}"),
                  update |-> Get(data, "update", "{}")])
      [] endpoint = "/api/find_and_modify" ->
            Call("find_and_modify",
                 With([query |-> Get(data, "query", "{}"),
                       remove |-> Get(data, "remove", FALSE)],
                      Optional(data, "update", "update")))
      [] endpoint = "/api/update_one" ->
            Call("update_one", [filter_query |-> Get(data, "filter", "{}"),
                                update |-> Get(data, "update", "{}")])
      [] endpoint = "/api/update_many" ->
            Call("update_many", [filter_query |-> Get(data, "filter", "{}"),
                                 update |-> Get(data, "update", "{}")])
      [] endpoint = "/api/update" ->
            Call("update", [spec |-> Get(data, "spec", "{}"),
                            document |-> Get(data, "document", "{}"),
                            multi |-> Get(data, "multi", FALSE)])
      [] endpoint = "/api/replace_one" ->
            Call("replace_one", [filter_query |-> Get(data, "filter", "{}"),
                                 replacement |-> Get(data, "replacement", "{}")])
      [] endpoint = "/api/delete_one" ->
            Call("delete_one", [filter_query |-> Get(data, "filter", "{}")])
      [] endpoint = "/api/delete_many" ->
            Call("delete_many", [filter_query |-> Get(data, "filter", "{}")])
      [] endpoint = "/api/remove" ->
            Call("remove", [spec_or_id |-> Get(data, "spec", "{}"),
                            multi |-> Get(data, "multi", FALSE)])
      [] endpoint = "/api/count" ->
            Call("count", [filter_query |-> Get(data, "filter", "{}")])
      [] endpoint = "/api/count_documents" ->
            Call("count_documents", [filter_query |-> Get(data, "filter", "{}")])
      [] endpoint = "/api/estimated_document_count" ->
            Call("estimated_document_count", EmptyDict)
      [] endpoint = "/api/aggregate" ->
            Call("aggregate", [pipeline |-> Get(data, "pipeline", "[]")])
      [] endpoint = "/api/group" ->
            Call("group", With([condition |-> Get(data, "condition", "{}"),
                                initial |-> Get(data, "initial", "{}"),
                                reduce |-> Get(data, "reduce", "")],
                               Optional(data, "key", "key")))
      [] endpoint = "/api/map_reduce" ->
            Call("map_reduce", [map_func |-> Get(data, "map", ""),
                                reduce_func |-> Get(data, "reduce", ""),
                                out |-> Get(data, "out", "mr_results")])
      [] endpoint = "/api/inline_map_reduce" ->
            Call("inline_map_reduce", [map_func |-> Get(data, "map", ""),
                                       reduce_func |-> Get(data, "reduce", "")])
      [] endpoint = "/api/create_index" ->
            Call("create_index",
                 [keys |-> << <<Get(data, "field", "name"),
                                Get(data, "direction", 1)>> >>,
                  unique |-> Get(data, "unique", FALSE)])
      [] endpoint = "/api/create_indexes" ->
            LET indexes == SelectSeq(Get(data, "indexes", <<>>), IsIndexSpec)
            IN  IF indexes = <<>>
                THEN BadRequest("No valid index specifications")
                ELSE Call("create_indexes",
                          [indexes |-> [i \in DOMAIN indexes |-> IndexKeys(indexes[i])]])
      [] endpoint = "/api/ensure_index" ->
            Call("ensure_index",
                 [keys |-> << <<Get(data, "field", "name"),
                                Get(data, "direction", 1)>> >>])
      [] endpoint = "/api/drop_index" ->
            Call("drop_index", Optional(data, "index_name", "index_or_name"))
      [] endpoint = "/api/drop_indexes" -> Call("drop_indexes", EmptyDict)
      [] endpoint = "/api/reindex" -> Call("reindex", EmptyDict)
      [] endpoint = "/api/distinct" ->
            Call("distinct", [key |-> Get(data, "key", "name"),
                              filter_query |-> Get(data, "filter", "{}")])
      [] endpoint = "/api/rename" ->
            Call("rename", Optional(data, "new_name", "new_name"))
      [] endpoint = "/api/drop" -> Call("drop", EmptyDict)
      [] endpoint = "/api/bulk_write" ->
            LET operations == Get(data, "operations", <<>>)
                turns == [i \in DOMAIN operations |-> BulkOp(operations[i])]
                raising == { i \in DOMAIN turns : "raises" \in DOMAIN turns[i] }
                bulk_ops == SelectSeq(turns, IsRequest)
            IN  IF raising # {}
                THEN RouteRaises(turns[CHOOSE i \in raising :
                                        \A j \in raising : i <= j].raises)
                ELSE IF bulk_ops = <<>>
                THEN BadRequest("No valid operations to execute")
                ELSE Call("bulk_write",
                          [requests |-> [i \in DOMAIN bulk_ops |-> bulk_ops[i].request]])
      [] endpoint = "/api/clear" -> Call("clear_collection", EmptyDict)

\* The routes whose body never reads the request's JSON.
NoBodyRoutes == {"/api/estimated_document_count", "/api/drop_indexes",
                 "/api/reindex", "/api/drop", "/api/clear"}

\* A driver call that returned v, leaving the database as d; one that raised e.
Returned(v, d) == [raises |-> FALSE, error |-> "", value |-> v, db |-> d]
Raises(e, d) == [raises |-> TRUE, error |-> e, value |-> None, db |-> d]

\* The filter among the arguments of a call; {} when it has none.
FilterOf(args) ==
    IF "filter_query" \in DOMAIN args THEN args.filter_query
    ELSE IF "query" \in DOMAIN args THEN args.query
    ELSE IF "spec" \in DOMAIN args THEN args.spec
    ELSE IF "spec_or_id" \in DOMAIN args THEN args.spec_or_id
    ELSE "{}"

(* pymongo's Collection method `method` on the collection `name` of db,    *)
(* m being how many documents match the filter of the call. Collections    *)
(* are created by the first write; map_reduce replaces its output          *)
(* collection by one document per key, and is followed when the output is  *)
(* one of Names.                                                           *)
Driver(method, args, name, db, m) ==
    LET c == db[name]
        n == Count(c)
        idx == Indexes(c)
        Holding(nn, ii) == [db EXCEPT ![name] = [n |-> nn, indexes |-> ii]]
        Kept(nn) == IF Exists(c) THEN Holding(nn, idx) ELSE db
        one == Min(m, 1)
        found == IF m > 0 THEN StoredDoc(1) ELSE None
        UpdateResult(x) == Doc([matched_count |-> Num(x), modified_count |-> Num(x)])
        DeleteResult(x) == Doc([deleted_count |-> Num(x)])
    IN
    CASE method \in {"insert_one", "save"} ->
            Returned(ObjectId(n + 1), Holding(n + 1, idx))
      [] method = "insert_many" ->
            IF ~IsList(args.documents) \/ DocCount(args.documents) = 0
            THEN Raises("TypeError", db)
            ELSE LET k == DocCount(args.documents)
                 IN  Returned(List([i \in 1 .. k |-> ObjectId(n + i)]), Holding(n + k, idx))
      [] method = "insert" ->
            IF IsList(args.doc_or_docs)
            THEN LET k == DocCount(args.doc_or_docs)
                 IN  Returned(List([i \in 1 .. k |-> ObjectId(n + i)]), Holding(n + k, idx))
            ELSE Returned(ObjectId(n + 1), Holding(n + 1, idx))
      [] method = "find" ->
            Returned(StoredDocs(IF args.limit > 0 THEN Min(m, args.limit) ELSE m), db)
      [] method = "find_one" -> Returned(found, db)
      [] method = "find_one_and_delete" -> Returned(found, Kept(n - one))
      [] method = "find_one_and_replace" -> Returned(found, db)
      [] method = "find_one_and_update" ->
            IF Truthy(args.update) THEN Returned(found, db)
            ELSE Raises("ValueError", db)
      [] method = "find_and_modify" ->
            LET updates == "update" \in DOMAIN args /\ Truthy(args.update)
            IN  IF updates = args.remove THEN Raises("ValueError", db)
                ELSE Returned(found, IF args.remove THEN Kept(n - one) ELSE db)
      [] method = "update_one" ->
            IF Truthy(args.update) THEN Returned(UpdateResult(one), db)
            ELSE Raises("ValueError", db)
      [] method = "update_many" ->
            IF Truthy(args.update) THEN Returned(UpdateResult(m), db)
            ELSE Raises("ValueError", db)
      [] method = "update" ->
            LET x == IF args.multi THEN m ELSE one
            IN  Returned(Doc([n |-> Num(x), nModified |-> Num(x), ok |-> Num(1),
                              updatedExisting |-> Bool(x > 0)]), db)
      [] method = "replace_one" -> Returned(UpdateResult(one), db)
      [] method = "delete_one" -> Returned(DeleteResult(one), Kept(n - one))
      [] method \in {"delete_many", "clear_collection"} ->
            Returned(DeleteResult(m), Kept(n - m))
      [] method = "remove" ->
            LET x == IF args.multi THEN m ELSE one
            IN  Returned(Doc([n |-> Num(x), ok |-> Num(1)]), Kept(n - x))
      [] method \in {"count", "count_documents"} -> Returned(Num(m), db)
      [] method = "estimated_document_count" -> Returned(Num(n), db)
      [] method = "aggregate" ->
            IF args.pipeline = "[]" THEN Returned(StoredDocs(n), db)
            ELSE IF args.pipeline = "project ref=$_id"
            THEN Returned(List([i \in 1 .. n |->
                    Doc([_id |-> ObjectId(i), ref |-> ObjectId(i)])]), db)
            ELSE Returned(List([i \in 1 .. Min(n, 1) |->
                    Doc([_id |-> Str("department"), count |-> Num(n)])]), db)
      [] method = "group" ->
            Returned(List([i \in 1 .. Min(n, 1) |-> Doc([count |-> Num(n)])]), db)
      [] method = "map_reduce" ->
            Returned(Str("testdb." \o args.out),
                     IF args.out \in Names /\ Exists(c)
                     THEN [db EXCEPT ![args.out] = [n |-> Min(n, 1), indexes |-> {}]]
                     ELSE db)
      [] method = "inline_map_reduce" ->
            IF args.map_func = "emit(_id,1)"
            THEN Returned(List([i \in 1 .. n |->
                    Doc([_id |-> ObjectId(i), value |-> Num(1)])]), db)
            ELSE Returned(List([i \in 1 .. Min(n, 1) |->
                    Doc([_id |-> Str("key"), value |-> Num(n)])]), db)
      [] method \in {"create_index", "ensure_index"} ->
            Returned(Str(IndexName(args.keys)),
                     Holding(n, idx \cup {IndexName(args.keys)}))
      [] method = "create_indexes" ->
            LET names == [i \in DOMAIN args.indexes |-> IndexName(args.indexes[i])]
            IN  Returned(List([i \in DOMAIN names |-> Str(names[i])]),
                         Holding(n, idx \cup {names[i] : i \in DOMAIN names}))
      [] method = "drop_index" ->
            IF "index_or_name" \notin DOMAIN args THEN Raises("TypeError", db)
            ELSE IF ~Exists(c) THEN Returned(None, db)
            ELSE IF args.index_or_name \notin idx THEN Raises("OperationFailure", db)
            ELSE Returned(None, Holding(n, idx \ {args.index_or_name}))
      [] method = "drop_indexes" ->
            Returned(None, IF Exists(c) THEN Holding(n, {}) ELSE db)
      [] method = "reindex" ->
            IF Exists(c) THEN Returned(Doc([ok |-> Num(1)]), db)
            ELSE Raises("OperationFailure", db)
      [] method = "distinct" ->
            IF args.key = "_id"
            THEN Returned(List([i \in 1 .. m |-> ObjectId(i)]), db)
            ELSE Returned(List([i \in 1 .. Min(m, 1) |-> Str("value")]), db)
      [] method = "rename" ->
            IF "new_name" \notin DOMAIN args THEN Raises("TypeError", db)
            ELSE IF ~Exists(c) \/ args.new_name = name \/ Exists(db[args.new_name])
            THEN Raises("OperationFailure", db)
            ELSE Returned(None, [db EXCEPT ![args.new_name] = c, ![name] = Absent])
      [] method = "drop" -> Returned(None, [db EXCEPT ![name] = Absent])
      [] method = "bulk_write" ->
            Returned(Doc([inserted_count |-> Num(CountKind(args.requests, "InsertOne")),
                          deleted_count |-> Num(n + CountKind(args.requests, "InsertOne")
                                                - BulkCount(args.requests, n))]),
                     Holding(BulkCount(args.requests, n), idx))

\* `doc['_id'] = str(doc['_id'])`, for a document that is there and has one.
StrId(v) ==
    IF "doc" \in DOMAIN v /\ "_id" \in DOMAIN v.doc
    THEN Doc([v.doc EXCEPT !["_id"] = PyStr(@)])
    ELSE v

StrIds(v) == List([i \in DOMAIN v.list |-> StrId(v.list[i])])
StrEach(v) == List([i \in DOMAIN v.list |-> PyStr(v.list[i])])

\* The dict a method of MongoDBOperations builds from what the driver
\* returned (database.py:57-441).
Reshape(method, args, v) ==
    LET Result(f) == Doc([k \in DOMAIN f \cup {"operation"} |->
                            IF k = "operation" THEN Str(method) ELSE f[k]])
    IN
    CASE method = "insert_one" ->
            Result([inserted_id |-> PyStr(v), acknowledged |-> Bool(TRUE)])
      [] method = "insert_many" ->
            Result([inserted_ids |-> StrEach(v), inserted_count |-> Num(Len(v.list)),
                    acknowledged |-> Bool(TRUE)])
      [] method = "insert" ->
            IF "list" \in DOMAIN v
            THEN Result([inserted_ids |-> StrEach(v), count |-> Num(Len(v.list))])
            ELSE Result([inserted_id |-> PyStr(v)])
      [] method = "save" -> Result([saved_id |-> PyStr(v)])
      [] method = "find" ->
            Result([count |-> Num(Len(v.list)), documents |-> StrIds(v)])
      [] method = "find_one" -> Result([document |-> StrId(v)])
      [] method = "find_one_and_delete" -> Result([deleted_document |-> StrId(v)])
      [] method \in {"find_one_and_replace", "find_one_and_update"} ->
            Result([old_document |-> StrId(v)])
      [] method = "find_and_modify" -> Result([document |-> StrId(v)])
      [] method \in {"update_one", "update_many", "replace_one"} ->
            Result([matched_count |-> v.doc.matched_count,
                    modified_count |-> v.doc.modified_count,
                    acknowledged |-> Bool(TRUE)])
      [] method \in {"update", "remove", "reindex"} -> Result([result |-> v])
      [] method \in {"delete_one", "delete_many"} ->
            Result([deleted_count |-> v.doc.deleted_count, acknowledged |-> Bool(TRUE)])
      [] method = "clear_collection" ->
            Result([deleted_count |-> v.doc.deleted_count])
      [] method \in {"count", "count_documents", "estimated_document_count"} ->
            Result([count |-> v])
      [] method = "aggregate" ->
            Result([count |-> Num(Len(v.list)), results |-> StrIds(v)])
      [] method \in {"group", "inline_map_reduce"} -> Result([results |-> v])
      [] method = "map_reduce" -> Result([collection |-> v])
      [] method \in {"create_index", "ensure_index"} -> Result([index_name |-> v])
      [] method = "create_indexes" -> Result([index_names |-> v])
      [] method = "drop_index" -> Result([dropped |-> Str(args.index_or_name)])
      [] method = "drop_indexes" -> Result([status |-> Str("all indexes dropped")])
      [] method = "distinct" ->
            Result([key |-> Str(args.key), values |-> v, count |-> Num(Len(v.list))])
      [] method = "rename" -> Result([new_name |-> Str(args.new_name)])
      [] method = "drop" -> Result([status |-> Str("collection dropped")])
      [] method = "bulk_write" ->
            Result([inserted_count |-> v.doc.inserted_count,
                    deleted_count |-> v.doc.deleted_count,
                    acknowledged |-> Bool(TRUE)])

\* DbOps with a rename that leaves self.collection where it was.
DbOpsHandleStays(method, args, handle, db, m, fault) ==
    LET d == IF fault THEN Raises(DriverError, db)
             ELSE Driver(method, args, handle, db, m)
    IN  IF d.raises
        THEN [raised |-> TRUE, error |-> d.error, returned |-> None,
              result |-> None, collection |-> handle, collections |-> db]
        ELSE [raised |-> FALSE, error |-> "", returned |-> d.value,
              result |-> Reshape(method, args, d.value),
              collection |-> handle,
              collections |-> d.db]

(* A method of MongoDBOperations on the handle (database.py): the driver   *)
(* call, then the reshaping; rename moves the handle (database.py:393).    *)
(* fault: the driver raises PyMongoError whatever the call.                *)
DbOps(method, args, handle, db, m, fault) ==
    LET d == IF fault THEN Raises(DriverError, db)
             ELSE Driver(method, args, handle, db, m)
    IN  IF d.raises
        THEN [raised |-> TRUE, error |-> d.error, returned |-> None,
              result |-> None, collection |-> handle, collections |-> db]
        ELSE [raised |-> FALSE, error |-> "", returned |-> d.value,
              result |-> Reshape(method, args, d.value),
              collection |-> IF method = "rename" THEN args.new_name ELSE handle,
              collections |-> d.db]

\* A request without a JSON body.
NoBody == None

\* jsonify(...) of the 200, 400 and 500 envelopes of a route.
Success(data) ==
    [status_code |-> 200, text |-> "json", json |-> [success |-> TRUE, data |-> data]]
Failure(status_code, e) ==
    [status_code |-> status_code, text |-> "json",
     json |-> [success |-> FALSE, error |-> e]]

\* ApiHandler with an api_drop that does not reset db_ops.collection.
ApiHandlerWithoutReset(endpoint, data, handle, db, m, fault) ==
    LET Unchanged(resp) ==
            [response |-> resp, called |-> FALSE, completed |-> FALSE,
             returned |-> None, collection |-> handle, collections |-> db]
    IN
    IF endpoint \notin NoBodyRoutes /\ data = NoBody
    THEN Unchanged(Failure(500, "AttributeError"))
    ELSE LET route == Route(endpoint, data)
         IN  IF "bad_request" \in DOMAIN route
             THEN Unchanged(Failure(400, route.bad_request))
             ELSE IF "route_raises" \in DOMAIN route
             THEN Unchanged(Failure(500, route.route_raises))
             ELSE LET r == DbOps(route.method, route.args, handle, db, m, fault)
                  IN  [response |->
                          IF r.raised THEN Failure(500, r.error)
                          ELSE IF HasOid(r.result) THEN Failure(500, "TypeError")
                          ELSE Success(r.result),
                       called |-> TRUE,
                       completed |-> ~r.raised,
                       returned |-> r.returned,
                       collection |-> r.collection,
                       collections |-> r.collections]

(* The handler of an operation route (app.py:83-564): what it answers,     *)
(* whether it called the driver and whether the call returned, what the    *)
(* call returned, and the handle and the database it leaves. Everything    *)
(* stands in the route's try: get_json() with no body, the method of       *)
(* db_ops, the reset of the handle in api_drop, and jsonify, which raises  *)
(* TypeError on an ObjectId.                                               *)
ApiHandler(endpoint, data, handle, db, m, fault) ==
    LET Unchanged(resp) ==
            [response |-> resp, called |-> FALSE, completed |-> FALSE,
             returned |-> None, collection |-> handle, collections |-> db]
    IN
    IF endpoint \notin NoBodyRoutes /\ data = NoBody
    THEN Unchanged(Failure(500, "AttributeError"))
    ELSE LET route == Route(endpoint, data)
         IN  IF "bad_request" \in DOMAIN route
             THEN Unchanged(Failure(400, route.bad_request))
             ELSE IF "route_raises" \in DOMAIN route
             THEN Unchanged(Failure(500, route.route_raises))
             ELSE LET r == DbOps(route.method, route.args, handle, db, m, fault)
                      reset == IF endpoint = "/api/drop" /\ ~r.raised
                               THEN "test_collection"
                               ELSE r.collection
                  IN  [response |->
                          IF r.raised THEN Failure(500, r.error)
                          ELSE IF HasOid(r.result) THEN Failure(500, "TypeError")
                          ELSE Success(r.result),
                       called |-> TRUE,
                       completed |-> ~r.raised,
                       returned |-> r.returned,
                       collection |-> reset,
                       collections |-> r.collections]

\* How many documents the filter of a request may match.
Matches(endpoint, data, handle, db) ==
    IF endpoint \notin NoBodyRoutes /\ data = NoBody THEN {0}
    ELSE LET route == Route(endpoint, data)
         IN  IF DOMAIN route \cap {"bad_request", "route_raises"} # {} THEN {0}
             ELSE Matched(FilterOf(route.args), Count(db[handle]))

\* What one request to an operation route was and how it went.
Exchange(by, endpoint, data, h) ==
    [by |-> by, endpoint |-> endpoint, data |-> data, called |-> h.called,
     completed |-> h.completed, returned |-> h.returned, response |-> h.response]

\* The requests a client sends to the operation routes: those of the
\* catalog, and some the catalog does not hold.
ClientRequests ==
    { [endpoint |-> Catalog[i].endpoint, data |-> Catalog[i].payload] :
        i \in DOMAIN Catalog }
    \cup
    { [endpoint |-> "/api/create_index", data |-> [field |-> "email"]],
      [endpoint |-> "/api/insert_one", data |-> EmptyDict],
      [endpoint |-> "/api/insert", data |-> EmptyDict],
      [endpoint |-> "/api/insert", data |-> [documents |-> "Bob..Fiona"]],
      [endpoint |-> "/api/find", data |-> EmptyDict],
      [endpoint |-> "/api/find", data |-> NoBody],
      [endpoint |-> "/api/aggregate", data |-> [pipeline |-> "project ref=$_id"]],
      [endpoint |-> "/api/inline_map_reduce",
       data |-> [map |-> "emit(_id,1)", reduce |-> "Array.sum"]],
      [endpoint |-> "/api/group", data |-> [key |-> "department"]],
      [endpoint |-> "/api/distinct", data |-> [key |-> "_id"]],
      [endpoint |-> "/api/distinct", data |-> [key |-> "department"]],
      [endpoint |-> "/api/create_indexes", data |-> [indexes |-> <<>>]],
      [endpoint |-> "/api/drop_index", data |-> EmptyDict],
      [endpoint |-> "/api/rename", data |-> EmptyDict],
      [endpoint |-> "/api/rename", data |-> NoBody],
      [endpoint |-> "/api/bulk_write", data |-> [operations |-> <<>>]],
      [endpoint |-> "/api/bulk_write", data |-> [operations |-> << [unknown |-> EmptyDict] >>]],
      [endpoint |-> "/api/clear", data |-> EmptyDict] }

\* No request to an operation route yet.
NoExchange ==
    [by |-> "", endpoint |-> "", data |-> NoBody, called |-> FALSE,
     completed |-> FALSE, returned |-> None, response |-> NoResponse]

\* The database and the handle before any request: nothing exists, the
\* handle is on 'test_collection' (database.py:33).
DbInit ==
    /\ collection = "test_collection"
    /\ collections = [nm \in Names |-> Absent]
    /\ exchange = NoExchange
    /\ calls = 0
    /\ runs = 0
    /\ previous = <<>>
    /\ handlers = <<>>

----------------------------------------------------------------------------
(* The state after construction: no client yet, no run started. *)

Init ==
    /\ client = FALSE
    /\ test_operations \in Catalogs
    /\ pc = "idle"
    /\ index = 0
    /\ total_ops = 0
    /\ completed = 0
    /\ results = <<>>
    /\ response = NoResponse
    /\ raised = ""
    /\ inflight = {}
    /\ requests = <<>>
    /\ answers = <<>>
    /\ events = <<>>
    /\ emit_failed = 0
    /\ clear_failed = FALSE
    /\ now = 0
    /\ start_time = 0
    /\ op_start = 0
    /\ op_time = 0
    /\ summary = None
    /\ http_response = NoResponse
    /\ DbInit

\* The descriptor execute_operation is running.
Current == test_operations[index]

\* The ticks a blocking call may take.
Delays == { d \in 0 .. 1 : now + d <= MaxClock }

\* What Flask answers when the handler (or before_request) lets an
\* exception escape.
InternalServerError == [status_code |-> 500, text |-> "html", json |-> EmptyDict]

----------------------------------------------------------------------------
(* POST /api/run_all arrives: before_first_request (app.py:37-41), then    *)
(* the first statements of the handler (app.py:592-594).  connect() sets   *)
(* self.client before its ping can raise (database.py:34-38).              *)

RunAllRequest ==
    /\ UNCHANGED dbvars
    /\ pc \in {"idle", "refused"}
    /\ client' = TRUE
    /\ \/ /\ ~client
          /\ pc' = "refused"
          /\ http_response' = InternalServerError
          /\ UNCHANGED <<results, start_time>>
       \/ /\ pc' = "clear"
          /\ results' = <<>>
          /\ start_time' = now
          /\ http_response' = NoResponse
    /\ UNCHANGED <<test_operations, index, total_ops, completed, response,
                   raised, inflight, requests, answers, events, emit_failed,
                   clear_failed, now, op_start, op_time, summary>>

(* `try: db_ops.clear_collection() except: pass` (app.py:596-600). *)
ClearCollection ==
    /\ UNCHANGED dbvars
    /\ pc = "clear"
    /\ \E ok \in BOOLEAN, d \in Delays :
          /\ clear_failed' = ~ok
          /\ now' = now + d
    /\ pc' = "emit_start"
    /\ UNCHANGED <<client, test_operations, index, total_ops, completed,
                   results, response, raised, inflight, requests, answers, events,
                   emit_failed, start_time, op_start, op_time, summary,
                   http_response>>

(* total_ops, completed and the 'start' emission (app.py:730-738), which   *)
(* no try encloses: an exception of socketio.emit leaves the handler.      *)
EmitStart ==
    /\ UNCHANGED dbvars
    /\ pc = "emit_start"
    /\ total_ops' = Len(test_operations)
    /\ completed' = 0
    /\ index' = 0
    /\ \/ /\ events' = Append(events, [type |-> "start", total |-> total_ops'])
          /\ pc' = AfterOperation(0, total_ops')
          /\ UNCHANGED <<emit_failed, http_response>>
       \/ /\ emit_failed' = emit_failed + 1
          /\ pc' = "aborted"
          /\ http_response' = InternalServerError
          /\ UNCHANGED events
    /\ UNCHANGED <<client, test_operations, results, response, raised,
                   inflight, requests, answers, clear_failed, now, start_time,
                   op_start, op_time, summary>>

(* The loop calls execute_operation(index, ...), which takes op_start and  *)
(* emits 'operation_start' before its try (app.py:743-752): an exception   *)
(* of the emission is caught by the loop (app.py:826-829).                 *)
EmitOperationStart ==
    /\ UNCHANGED dbvars
    /\ pc = "operation_start"
    /\ index' = index + 1
    /\ op_start' = now
    /\ \/ /\ events' = Append(events,
                 OperationStartEvent(test_operations[index'].name, index', total_ops))
          /\ pc' = "send"
          /\ UNCHANGED emit_failed
       \/ /\ emit_failed' = emit_failed + 1
          /\ pc' = AfterOperation(index', total_ops)
          /\ UNCHANGED events
    /\ UNCHANGED <<client, test_operations, total_ops, completed, results,
                   response, raised, inflight, requests, answers, clear_failed, now,
                   start_time, op_time, summary, http_response>>

(* http_requests.get/post sends the request (app.py:756-763). *)
SendRequest ==
    /\ UNCHANGED dbvars
    /\ pc = "send"
    /\ requests' = Append(requests, <<Method(Current.name), Current.endpoint>>)
    /\ inflight' = inflight \cup {index}
    /\ pc' = AfterSend
    /\ UNCHANGED <<client, test_operations, index, total_ops, completed,
                   results, response, raised, answers, events, emit_failed,
                   clear_failed, now, start_time, op_start, op_time, summary,
                   http_response>>

(* The answer arrives and the try block records it (app.py:763-780). *)
ReceiveResponse ==
    /\ UNCHANGED dbvars
    /\ pc = "await"
    /\ \E resp \in Responses(Current.name), d \in Delays :
          /\ now' = now + d
          /\ response' = resp
          /\ answers' = Append(answers, [operation |-> Current.name,
                                         fault |-> "", response |-> resp])
          /\ op_time' = ElapsedMs(op_start, now')
          /\ results' = Append(results, ResultEntry(Current.name, resp, op_time'))
    /\ inflight' = inflight \ {index}
    /\ completed' = completed + 1
    /\ pc' = "emit_operation_complete"
    /\ UNCHANGED <<client, test_operations, index, total_ops, raised,
                   requests, events, emit_failed, clear_failed, start_time,
                   op_start, summary, http_response>>

(* The call raises and the except block records it (app.py:795-807). *)
RequestFault ==
    /\ UNCHANGED dbvars
    /\ pc = "await"
    /\ \E d \in Delays :
          /\ now' = now + d
          /\ op_time' = ElapsedMs(op_start, now')
          /\ results' = Append(results,
                               FaultEntry(Current.name, TransportError, op_time'))
    /\ raised' = TransportError
    /\ answers' = Append(answers, [operation |-> Current.name,
                                   fault |-> TransportError,
                                   response |-> NoResponse])
    /\ inflight' = inflight \ {index}
    /\ completed' = completed + 1
    /\ pc' = "emit_operation_error"
    /\ UNCHANGED <<client, test_operations, index, total_ops, response,
                   requests, events, emit_failed, clear_failed, start_time,
                   op_start, summary, http_response>>

(* The 'operation_complete' emission of the try block (app.py:782-793).    *)
(* It is inside the try: when it raises, the except block runs for an      *)
(* operation whose result is already recorded (app.py:795-807).            *)
EmitOperationComplete ==
    /\ UNCHANGED dbvars
    /\ pc = "emit_operation_complete"
    /\ \/ /\ events' = Append(events,
                 OperationCompleteEvent(Current.name, response, completed,
                                        total_ops, op_time))
          /\ pc' = AfterOperation(index, total_ops)
          /\ UNCHANGED <<emit_failed, raised, op_time, results, completed>>
       \/ /\ emit_failed' = emit_failed + 1
          /\ raised' = ChannelError
          /\ op_time' = ElapsedMs(op_start, now)
          /\ results' = Append(results,
                               FaultEntry(Current.name, ChannelError, op_time'))
          /\ completed' = completed + 1
          /\ pc' = "emit_operation_error"
          /\ UNCHANGED events
    /\ UNCHANGED <<client, test_operations, index, total_ops, response,
                   inflight, requests, answers, clear_failed, now, start_time,
                   op_start, summary, http_response>>

(* The 'operation_complete' emission of the except block (app.py:809-821): *)
(* an exception of it is caught by the loop (app.py:826-829).              *)
EmitOperationError ==
    /\ UNCHANGED dbvars
    /\ pc = "emit_operation_error"
    /\ \/ /\ events' = Append(events,
                 OperationErrorEvent(Current.name, raised, completed,
                                     total_ops, op_time))
          /\ UNCHANGED emit_failed
       \/ /\ emit_failed' = emit_failed + 1
          /\ UNCHANGED events
    /\ pc' = AfterOperation(index, total_ops)
    /\ UNCHANGED <<client, test_operations, index, total_ops, completed,
                   results, response, raised, inflight, requests, answers,
                   clear_failed, now, start_time, op_start, op_time, summary,
                   http_response>>

(* total_time and the summary (app.py:831-842). *)
Summarize ==
    /\ UNCHANGED dbvars
    /\ pc = "summary"
    /\ summary' = Summary(results, ElapsedMs(start_time, now))
    /\ pc' = "emit_complete"
    /\ UNCHANGED <<client, test_operations, index, total_ops, completed,
                   results, response, raised, inflight, requests, answers, events,
                   emit_failed, clear_failed, now, start_time, op_start,
                   op_time, http_response>>

(* The 'complete' emission, which no try encloses, and the answer          *)
(* (app.py:844-855).                                                       *)
EmitComplete ==
    /\ UNCHANGED dbvars
    /\ pc = "emit_complete"
    /\ \/ /\ events' = Append(events, [type |-> "complete", summary |-> summary])
          /\ http_response' =
                [status_code |-> 200, text |-> "json",
                 json |-> [success |-> TRUE, summary |-> summary,
                           results |-> results]]
          /\ pc' = "done"
          /\ UNCHANGED emit_failed
       \/ /\ emit_failed' = emit_failed + 1
          /\ http_response' = InternalServerError
          /\ pc' = "aborted"
          /\ UNCHANGED events
    /\ UNCHANGED <<client, test_operations, index, total_ops, completed,
                   results, response, raised, inflight, requests, answers,
                   clear_failed, now, start_time, op_start, op_time, summary>>

Next ==
    \/ RunAllRequest
    \/ ClearCollection
    \/ EmitStart
    \/ EmitOperationStart
    \/ SendRequest
    \/ ReceiveResponse
    \/ RequestFault
    \/ EmitOperationComplete
    \/ EmitOperationError
    \/ Summarize
    \/ EmitComplete

Spec == Init /\ [][Next]_vars

----------------------------------------------------------------------------
(* What the claims speak of. *)

\* The run has returned its answer.
RunReturned == pc = "done"

\* The run is over: it returned, or an exception left the handler.
RunOver == pc \in {"done", "aborted"}

\* Descriptor i's endpoint has been sent a request.
Invoked(i) ==
    \E j \in DOMAIN requests :
        requests[j] = <<Method(test_operations[i].name), test_operations[i].endpoint>>

\* The positions of the results recorded for descriptor i.
ResultsOf(i) ==
    { r \in DOMAIN results : results[r].operation = test_operations[i].name }

\* The positions of the events of a kind.
EventsOfType(t) == { e \in DOMAIN events : events[e].type = t }

\* The positions of the events of a kind about descriptor i.
OperationEvents(t, i) ==
    { e \in EventsOfType(t) : events[e].operation = test_operations[i].name }

\* The answer (response or fault) the request to descriptor i's endpoint got.
AnswersOf(i) ==
    { a \in DOMAIN answers : answers[a].operation = test_operations[i].name }

\* An answer that makes its operation a failed one.
FailedAnswer(a) == a.fault # "" \/ a.response.status_code # 200

\* One Execution Result per descriptor, in catalog order.
OneResultPerDescriptor ==
    /\ Len(results) = Len(test_operations)
    /\ \A i \in DOMAIN test_operations :
          i \in DOMAIN results /\ results[i].operation = test_operations[i].name

----------------------------------------------------------------------------
(* C1. For any outcome of the individual operations, a run of run_all      *)
(* produces exactly one Execution Result per catalog descriptor, and the   *)
(* results list is in catalog order: results[i].operation is the name of   *)
(* the i-th descriptor.                                                    *)
C1_OneResultPerDescriptorInOrder ==
    RunReturned => OneResultPerDescriptor

(* C1, in the runs all of whose emissions the channel accepted.            *)
C1_WhenChannelAccepts ==
    (RunReturned /\ emit_failed = 0) => OneResultPerDescriptor

(* C2. A failed operation at catalog position k (a non-200 response or a   *)
(* raised fault) never stops the run: every descriptor at the positions    *)
(* after k is still invoked.                                               *)
C2_FailureDoesNotStopRun ==
    RunReturned =>
        \A k \in DOMAIN test_operations :
            (\E a \in AnswersOf(k) : FailedAnswer(answers[a])) =>
                \A j \in DOMAIN test_operations : j > k => Invoked(j)

(* C2, in the runs all of whose emissions the channel accepted.            *)
C2_WhenChannelAccepts ==
    (RunReturned /\ emit_failed = 0) =>
        \A j \in DOMAIN test_operations : Invoked(j)

(* C3. At the end of every run the summary satisfies                       *)
(* successful + failed = total_operations = length(results), where        *)
(* successful counts the results with success = true and failed the        *)
(* results with success = false.                                           *)
C3_SummaryInvariant ==
    summary # None =>
        /\ summary.successful + summary.failed = summary.total_operations
        /\ summary.total_operations = Len(results)
        /\ summary.successful =
              Cardinality({ r \in DOMAIN results : results[r].success })
        /\ summary.failed =
              Cardinality({ r \in DOMAIN results : ~results[r].success })

\* A run has returned a summary that counts successes and failures, over a
\* results list that is longer than the catalog.
C3_Witness ==
    /\ RunReturned
    /\ summary.successful > 0
    /\ summary.failed > 0
    /\ Len(results) > Len(test_operations)

C5_StartAndCompleteOnce ==
    RunOver =>
        /\ EventsOfType("start") = {1}
        /\ events[1].total = Len(test_operations)
        /\ EventsOfType("complete") = {Len(events)}
        /\ events[Len(events)].summary = summary
        /\ summary # None

(* C5, in the runs all of whose emissions the channel accepted.            *)
C5_WhenChannelAccepts ==
    (RunOver /\ emit_failed = 0) =>
        /\ EventsOfType("start") = {1}
        /\ events[1].total = Len(test_operations)
        /\ EventsOfType("complete") = {Len(events)}
        /\ events[Len(events)].summary = summary
        /\ summary # None

(* C6. For every descriptor i an operation_start event carrying the        *)
(* 1-based index i and the operation name is emitted before the operation  *)
(* is invoked, an operation_complete event for i is emitted after its      *)
(* Execution Result is recorded, and both events for operation i precede   *)
(* both events for operation i+1.                                          *)
C6_OperationEvents ==
    /\ \A i \in DOMAIN test_operations :
          \* no request without the operation_start event before it
          /\ Invoked(i) =>
                \E e \in OperationEvents("operation_start", i) :
                    events[e].current = i
          \* no operation_complete event without the recorded result
          /\ OperationEvents("operation_complete", i) # {} => ResultsOf(i) # {}
    /\ RunReturned =>
          \A i \in DOMAIN test_operations :
              /\ \E e \in OperationEvents("operation_start", i) :
                    events[e].current = i
              /\ Invoked(i)
              /\ OperationEvents("operation_complete", i) # {}
              /\ \A e \in OperationEvents("operation_start", i)
                          \cup OperationEvents("operation_complete", i) :
                    \A j \in DOMAIN test_operations :
                        j > i =>
                            \A f \in OperationEvents("operation_start", j)
                                     \cup OperationEvents("operation_complete", j) :
                                e < f

(* C6, in the runs all of whose emissions the channel accepted.            *)
C6_WhenChannelAccepts ==
    emit_failed = 0 => C6_OperationEvents

(* C7. A progress emission that fails does not change the run: the results *)
(* list still holds exactly one Execution Result per descriptor, whose     *)
(* success value is determined only by the operation's own response, and   *)
(* the summary is the one of a run in which every emission succeeded.      *)
C7_EmissionFailureHarmless ==
    (RunReturned /\ emit_failed > 0) =>
        /\ OneResultPerDescriptor
        /\ Len(answers) = Len(test_operations)
        /\ \A i \in DOMAIN test_operations :
              /\ answers[i].operation = test_operations[i].name
              /\ results[i].success = ~FailedAnswer(answers[i])
        /\ summary # None
        /\ summary.total_operations = Len(test_operations)
        /\ summary.successful =
              Cardinality({ a \in DOMAIN answers : ~FailedAnswer(answers[a]) })
        /\ summary.failed =
              Cardinality({ a \in DOMAIN answers : FailedAnswer(answers[a]) })

(* What C7 asks of a run, in the runs whose emissions were all accepted.   *)
C7_WhenChannelAccepts ==
    (RunOver /\ emit_failed = 0) =>
        /\ OneResultPerDescriptor
        /\ Len(answers) = Len(test_operations)
        /\ \A i \in DOMAIN test_operations :
              /\ answers[i].operation = test_operations[i].name
              /\ results[i].success = ~FailedAnswer(answers[i])
        /\ summary # None
        /\ summary.total_operations = Len(test_operations)
        /\ summary.successful =
              Cardinality({ a \in DOMAIN answers : ~FailedAnswer(answers[a]) })
        /\ summary.failed =
              Cardinality({ a \in DOMAIN answers : FailedAnswer(answers[a]) })

(* C8. When an operation's endpoint responds successfully, its Execution   *)
(* Result has success = true and its `result` field holds the result       *)
(* payload the endpoint reported for that operation.                       *)
C8_SuccessCarriesPayload ==
    \A a \in DOMAIN answers :
        (answers[a].fault = "" /\ answers[a].response.status_code = 200) =>
            \E r \in DOMAIN results :
                /\ results[r].operation = answers[a].operation
                /\ results[r].success
                /\ results[r].result = answers[a].response.json.data

(* The part of C8 the code keeps: the success flag of such a result.       *)
C8_SuccessFlag ==
    \A a \in DOMAIN answers :
        (answers[a].fault = "" /\ answers[a].response.status_code = 200) =>
            \E r \in DOMAIN results :
                /\ results[r].operation = answers[a].operation
                /\ results[r].success
                /\ results[r].result = None

\* The error string C9 gives a failed answer.
ErrorOfAnswer(a) ==
    IF a.fault # "" THEN a.fault
    ELSE Get(a.response.json, "error", HTTPText(a.response.status_code))

(* C9. An Execution Result has success = false, with an `error` string,    *)
(* exactly when the endpoint answered with a non-200 status or the         *)
(* invocation raised: for a non-200 answer the error is the endpoint's     *)
(* `error` field (or 'HTTP <status>' when absent), for a raised fault it   *)
(* is the fault's text; a success = true result never carries an error.    *)
C9_FailureExactlyOnFailedAnswer ==
    \A r \in DOMAIN results :
        \E a \in DOMAIN answers :
            /\ answers[a].operation = results[r].operation
            /\ results[r].success = ~FailedAnswer(answers[a])
            /\ IF results[r].success
               THEN "error" \notin DOMAIN results[r]
               ELSE /\ "error" \in DOMAIN results[r]
                    /\ results[r].error = ErrorOfAnswer(answers[a])

(* C9, in the runs all of whose emissions the channel accepted.            *)
C9_WhenChannelAccepts ==
    emit_failed = 0 => C9_FailureExactlyOnFailedAnswer

\* The answer of a run that ran the whole catalog.
FullAnswer ==
    /\ http_response.status_code = 200
    /\ http_response.json.success
    /\ http_response.json.summary = summary
    /\ http_response.json.results = results
    /\ OneResultPerDescriptor

(* C10. If the pre-run clear of the collection fails, the failure is       *)
(* swallowed: the run still emits start, invokes every catalog descriptor  *)
(* and returns a full results list and summary.                            *)
C10_ClearFailureSwallowed ==
    (RunOver /\ clear_failed) =>
        /\ EventsOfType("start") # {}
        /\ \A i \in DOMAIN test_operations : Invoked(i)
        /\ FullAnswer

(* C10, in the runs all of whose emissions the channel accepted.           *)
C10_WhenChannelAccepts ==
    (RunOver /\ clear_failed /\ emit_failed = 0) =>
        /\ EventsOfType("start") # {}
        /\ \A i \in DOMAIN test_operations : Invoked(i)
        /\ FullAnswer

(* The step that follows the clear does not depend on how the clear ended. *)
C10_ClearOutcomeIgnored ==
    [][pc = "clear" => pc' = "emit_start"]_vars

(* C15. The summary's total_time_ms equals the sum of execution_time_ms    *)
(* over all Execution Results of the run.                                  *)
C15_TotalIsSumOfTimes ==
    summary # None => summary.total_time_ms = SumTimes(results)

(* C15 as amended: total_time_ms is the time elapsed from the start of the *)
(* handler (before the clear) to the end of the loop; no result's          *)
(* execution_time_ms exceeds it, and it is not their sum.                  *)
C15_TotalIsWallClock ==
    summary # None =>
        /\ summary.total_time_ms = ElapsedMs(start_time, now)
        /\ \A r \in DOMAIN results :
                results[r].execution_time_ms <= summary.total_time_ms

\* A run that returned a total different from the sum of its results' times.
C15_Witness ==
    /\ RunReturned
    /\ results # <<>>
    /\ summary.total_time_ms # SumTimes(results)
    /\ summary.total_time_ms = ElapsedMs(start_time, now)

(* C16. The orchestration endpoint always answers with {success: true,     *)
(* summary, results} once the catalog has been run, whatever the number of *)
(* failed operations; partial failure is never a failed request.           *)
C16_AlwaysAnswersSuccess ==
    (RunOver /\ summary # None) =>
        /\ http_response.status_code = 200
        /\ http_response.json =
                [success |-> TRUE, summary |-> summary, results |-> results]

(* C16, in the runs all of whose emissions the channel accepted.           *)
C16_WhenChannelAccepts ==
    (RunOver /\ summary # None /\ emit_failed = 0) =>
        /\ http_response.status_code = 200
        /\ http_response.json =
                [success |-> TRUE, summary |-> summary, results |-> results]

----------------------------------------------------------------------------
(* The server with the requests of a run served by the routes themselves. *)

\* The server once db_ops is connected, before any run.
ApiInit ==
    /\ client = TRUE
    /\ test_operations = <<>>
    /\ pc = "idle"
    /\ index = 0
    /\ total_ops = 0
    /\ completed = 0
    /\ results = <<>>
    /\ response = NoResponse
    /\ raised = ""
    /\ inflight = {}
    /\ requests = <<>>
    /\ answers = <<>>
    /\ events = <<>>
    /\ emit_failed = 0
    /\ clear_failed = FALSE
    /\ now = 0
    /\ start_time = 0
    /\ op_start = 0
    /\ op_time = 0
    /\ summary = None
    /\ http_response = NoResponse
    /\ DbInit

\* No collection holds more documents than the model follows.
WithinDocs(db) == \A nm \in Names : Count(db[nm]) <= MaxDocs

(* A client calls an operation route while no run is in progress. *)
ApiRequest ==
    /\ pc \in {"idle", "done"}
    /\ calls < MaxCalls
    /\ \E req \in ClientRequests, fault \in BOOLEAN :
        \E m \in IF fault THEN {0}
                 ELSE Matches(req.endpoint, req.data, collection, collections) :
            \E h \in {ApiHandler(req.endpoint, req.data, collection, collections,
                                m, fault)} :
                /\ WithinDocs(h.collections)
                /\ collection' = h.collection
                /\ collections' = h.collections
                /\ exchange' = Exchange("client", req.endpoint, req.data, h)
    /\ calls' = calls + 1
    /\ UNCHANGED <<client, test_operations, pc, index, total_ops, completed,
                   results, response, raised, inflight, requests, answers,
                   events, emit_failed, clear_failed, now, start_time, op_start,
                   op_time, summary, http_response, runs, previous,
                   handlers>>

(* POST /api/run_all with every emission accepted: the statements before   *)
(* the loop (app.py:592-737). clear_collection() is delete_many({}) on the *)
(* handle (database.py:435-441). The progress events and the log of the    *)
(* self-addressed requests, which Spec follows, are not recorded here.     *)
ApiRunAll ==
    /\ pc \in {"idle", "done"}
    /\ runs < MaxRuns
    /\ runs' = runs + 1
    /\ previous' = IF exchange.by = "run" THEN results ELSE <<>>
    /\ results' = <<>>
    /\ collections' =
            Driver("clear_collection", EmptyDict, collection, collections,
                   Count(collections[collection])).db
    /\ test_operations' = Catalog
    /\ total_ops' = Len(Catalog)
    /\ completed' = 0
    /\ index' = 0
    /\ summary' = None
    /\ http_response' = NoResponse
    /\ pc' = AfterOperation(0, Len(Catalog))
    /\ UNCHANGED <<client, response, raised, inflight, requests, answers,
                   events, emit_failed, clear_failed, now, start_time, op_start,
                   op_time, collection, exchange, calls,
                   handlers>>

(* One turn of the loop with every emission accepted: the request of       *)
(* execute_operation is served by the handler of its route, and the result *)
(* is appended (app.py:754-793).                                           *)
ApiRunOperation ==
    /\ pc = "operation_start"
    /\ index' = index + 1
    /\ LET op == test_operations[index + 1]
       IN  \E m \in Matches(op.endpoint, op.payload, collection, collections) :
            \E h \in {ApiHandler(op.endpoint, op.payload, collection, collections,
                                m, FALSE)} :
                /\ WithinDocs(h.collections)
                /\ collection' = h.collection
                /\ collections' = h.collections
                /\ exchange' = Exchange("run", op.endpoint, op.payload, h)
                /\ response' = h.response
                /\ results' = Append(results, ResultEntry(op.name, h.response, 0))
    /\ completed' = completed + 1
    /\ pc' = AfterOperation(index + 1, total_ops)
    /\ UNCHANGED <<client, test_operations, total_ops, raised, inflight,
                   requests, answers, events, emit_failed, clear_failed, now,
                   start_time, op_start, op_time, summary, http_response, calls,
                   runs, previous,
                   handlers>>

(* The summary and the answer of the run (app.py:831-855). *)
ApiRunReturn ==
    /\ pc = "summary"
    /\ summary' = Summary(results, ElapsedMs(start_time, now))
    /\ http_response' =
            [status_code |-> 200, text |-> "json",
             json |-> [success |-> TRUE, summary |-> summary',
                       results |-> results]]
    /\ pc' = "done"
    /\ UNCHANGED <<client, test_operations, index, total_ops, completed,
                   results, response, raised, inflight, requests, answers,
                   events, emit_failed, clear_failed, now, start_time, op_start,
                   op_time, collection, collections, exchange, calls, runs,
                   previous,
                   handlers>>

ApiNext ==
    \/ ApiRequest
    \/ ApiRunAll
    \/ ApiRunOperation
    \/ ApiRunReturn

ApiSpec == ApiInit /\ [][ApiNext]_vars

----------------------------------------------------------------------------
(* The catalog as a list. *)

\* The positions of a name in the catalog.
PositionsOf(n) == { i \in DOMAIN Catalog : Catalog[i].name = n }

\* The names the catalog holds.
CatalogNames == { Catalog[i].name : i \in DOMAIN Catalog }

\* The names GET /api/operations lists.
ListedNames ==
    UNION { { ListOperations.operations[g][i] :
                i \in DOMAIN ListOperations.operations[g] } :
            g \in DOMAIN ListOperations.operations }

\* How many names GET /api/operations lists, group by group.
RECURSIVE SumOver(_, _)
SumOver(S, f) ==
    IF S = {} THEN 0
    ELSE LET x == CHOOSE y \in S : TRUE
         IN  f[x] + SumOver(S \ {x}, f)

ListedCount ==
    SumOver(DOMAIN ListOperations.operations,
            [g \in DOMAIN ListOperations.operations |->
                Len(ListOperations.operations[g])])

IndexCreation == {"create_index", "create_indexes", "ensure_index"}
IndexRemoval == {"drop_index", "drop_indexes"}
IndexEntries == IndexCreation \cup IndexRemoval \cup {"reindex"}
Structural == IndexEntries \cup {"rename", "drop"}

\* Every entry named in A stands before every entry named in B.
Precede(A, B) ==
    \A i, j \in DOMAIN Catalog :
        (Catalog[i].name \in A /\ Catalog[j].name \in B) => i < j

(* C11. In the run_all catalog every non-structural operation (insert,     *)
(* find, update, delete, count, aggregate, distinct and bulk-write kinds)  *)
(* appears before every structural operation (index creation/removal,      *)
(* reindex, rename, drop).                                                 *)
C11_NonStructuralFirst ==
    test_operations = Catalog =>
        Precede(CatalogNames \ Structural, Structural)

(* C11 without distinct and bulk_write, the two entries the catalog puts   *)
(* after structural ones.                                                  *)
C11_ExceptDistinctAndBulk ==
    test_operations = Catalog =>
        Precede(CatalogNames \ (Structural \cup {"distinct", "bulk_write"}),
                Structural)

(* C12. In the run_all catalog every index-creation entry (create_index,   *)
(* create_indexes, ensure_index) precedes every index-removal entry        *)
(* (drop_index, drop_indexes), every index entry precedes rename, and      *)
(* rename precedes drop, which is the last entry.                          *)
C12_StructuralOrder ==
    test_operations = Catalog =>
        /\ Precede(IndexCreation, IndexRemoval)
        /\ Precede(IndexEntries, {"rename"})
        /\ Precede({"rename"}, {"drop"})
        /\ PositionsOf("drop") = {Len(test_operations)}

\* A run went through the catalog, which holds every entry C12 orders, and
\* its last result is that of drop.
C12_Witness ==
    /\ test_operations = Catalog
    /\ RunReturned
    /\ \A n \in Structural : PositionsOf(n) # {}
    /\ Len(results) = Len(test_operations)
    /\ results[Len(results)].operation = "drop"

C14_ThirtyFiveEverywhere ==
    test_operations = Catalog =>
        /\ Len(test_operations) = 35
        /\ ListOperations.total = 35
        /\ ListOperations.total = ListedCount
        /\ ListedCount = Cardinality(ListedNames)

(* The numbers the code has: 33 descriptors, 34 names listed, total 35.    *)
C14_ActualCounts ==
    test_operations = Catalog =>
        /\ Len(test_operations) = 33
        /\ ListedCount = 34
        /\ Cardinality(ListedNames) = 34
        /\ ListOperations.total = 35

----------------------------------------------------------------------------
(* The operation routes. *)

\* A request to an operation route has been served.
Served == exchange.endpoint # ""

\* What the route of the last exchange made of its request.
Routed == Route(exchange.endpoint, exchange.data)

\* The last exchange read no body where its route needs one.
Bodyless == exchange.endpoint \notin NoBodyRoutes /\ exchange.data = NoBody

\* The driver call of the last exchange returned a value in which the
\* reshaping of database.py leaves an ObjectId.
LeavesObjectId ==
    /\ exchange.completed
    /\ HasOid(Reshape(Routed.method, Routed.args, exchange.returned))

\* The last exchange was answered 200 with {success: true, data}.
AnsweredSuccess ==
    /\ exchange.response.status_code = 200
    /\ DOMAIN exchange.response.json = {"success", "data"}
    /\ exchange.response.json.success

\* The last exchange was answered with an error envelope of this status.
AnsweredFailure(status_code) ==
    /\ exchange.response.status_code = status_code
    /\ DOMAIN exchange.response.json = {"success", "error"}
    /\ ~exchange.response.json.success

(* C17. Every operation endpoint answers HTTP 200 with {success: true,     *)
(* data} exactly when its driver call completes without raising, and HTTP  *)
(* 500 with {success: false, error} when the handler raises; no fault      *)
(* escapes the handler uncaught.                                           *)
C17_StatusFollowsDriver ==
    Served =>
        /\ AnsweredSuccess <=> exchange.completed
        /\ (Bodyless \/ (exchange.called /\ ~exchange.completed)) =>
                AnsweredFailure(500)
        /\ exchange.response.text = "json"

(* C17, for the exchanges in which no ObjectId is left in the data.        *)
C17_WhenSerialisable ==
    (Served /\ ~LeavesObjectId) =>
        /\ AnsweredSuccess <=> exchange.completed
        /\ (Bodyless \/ (exchange.called /\ ~exchange.completed)) =>
                AnsweredFailure(500)
        /\ exchange.response.text = "json"

\* The request of the last exchange has no body, or lacks the field (or
\* the valid entries) its route needs.
Malformed ==
    \/ Bodyless
    \/ exchange.endpoint = "/api/rename" /\ "new_name" \notin DOMAIN exchange.data
    \/ exchange.endpoint = "/api/drop_index" /\ "index_name" \notin DOMAIN exchange.data
    \/ exchange.endpoint = "/api/insert"
        /\ DOMAIN exchange.data \cap {"document", "documents"} = {}
    \/ exchange.endpoint \in {"/api/create_indexes", "/api/bulk_write"}
        /\ "bad_request" \in DOMAIN Routed

(* C18. For every operation endpoint, a request whose body is malformed or *)
(* lacks a required field (no body, no new_name for rename, no index_name  *)
(* for drop_index, no document/documents for insert, no valid entries for  *)
(* create_indexes or bulk_write) is answered with HTTP 400 and the driver  *)
(* is not called.                                                          *)
C18_MalformedIs400 ==
    (Served /\ Malformed) => (AnsweredFailure(400) /\ ~exchange.called)

(* The three routes that do validate: insert, create_indexes, bulk_write.  *)
C18_ValidatingRoutes ==
    (Served /\ Malformed /\ ~Bodyless
        /\ exchange.endpoint \in {"/api/insert", "/api/create_indexes",
                                  "/api/bulk_write"})
        => (AnsweredFailure(400) /\ ~exchange.called)

(* C19. Every binary identifier the driver returns is a string in the      *)
(* endpoint's response data: no driver-generated identifier reaches the    *)
(* JSON envelope in non-string form, wherever in the returned document it  *)
(* occurs.                                                                 *)
C19_IdsAreStrings ==
    (Served /\ exchange.completed /\ HasOid(exchange.returned)) =>
        /\ AnsweredSuccess
        /\ ~HasOid(exchange.response.json.data)

(* What holds: a 200 envelope never carries an ObjectId, because jsonify   *)
(* raises on one and the route then answers 500.                           *)
C19_NoObjectIdInSuccess ==
    (Served /\ exchange.response.status_code = 200) =>
        ~HasOid(exchange.response.json.data)

\* Every entry of the list is one of a successful operation.
AllSucceeded(rs) == \A i \in DOMAIN rs : rs[i].success

(* C20. Running run_all again after a run in which every operation         *)
(* succeeded again succeeds for every operation: the second run starts     *)
(* from the same collection state as the first.                            *)
C20_RerunSucceeds ==
    (previous # <<>> /\ AllSucceeded(previous)) => AllSucceeded(results)

(* What the drop that ends a fully successful run leaves: the handle on    *)
(* 'test_collection', which does not exist, hence holds no document and    *)
(* no index, and no rename target.                                         *)
C20_StateAfterSuccessfulRun ==
    (RunReturned /\ test_operations = Catalog /\ AllSucceeded(results)
        /\ exchange.by = "run") =>
        /\ collection = "test_collection"
        /\ \A nm \in Names : ~Exists(collections[nm])

----------------------------------------------------------------------------
(* The run of an empty catalog, the operation_complete events, and the     *)
(* end of a run.                                                           *)

\* The three counts of a summary.
Counts(s) == <<s.total_operations, s.successful, s.failed>>

(* C21. With an empty catalog the run invokes nothing, emits exactly two   *)
(* events, `start` with total 0 and then `complete` with the summary       *)
(* {total_operations 0, successful 0, failed 0}, and returns an empty      *)
(* results list.                                                           *)
C21_EmptyCatalog ==
    (RunOver /\ test_operations = <<>>) =>
        /\ requests = <<>>
        /\ Len(events) = 2
        /\ events[1] = [type |-> "start", total |-> 0]
        /\ events[2].type = "complete"
        /\ Counts(events[2].summary) = <<0, 0, 0>>
        /\ http_response.status_code = 200
        /\ http_response.json.results = <<>>

(* C21, in the runs all of whose emissions the channel accepted.           *)
C21_WhenChannelAccepts ==
    (emit_failed = 0 /\ test_operations = <<>>) => C21_EmptyCatalog

(* C22. Every operation_complete event carries the success flag and the    *)
(* elapsed time of the Execution Result recorded for its operation, and    *)
(* when that result is a failure (a non-200 response as well as a raised   *)
(* fault) the event also carries an error message.                         *)
C22_EventMatchesResult ==
    \A e \in EventsOfType("operation_complete") :
        \E r \in DOMAIN results :
            /\ results[r].operation = events[e].operation
            /\ results[r].success = events[e].success
            /\ results[r].execution_time_ms = events[e].execution_time_ms
            /\ ~results[r].success => "error" \in DOMAIN events[e]

(* What holds of C22: the flag and the time of an event are those of a     *)
(* recorded result of its operation, and the event of the except block     *)
(* carries the error that the result carries.                              *)
C22_FlagAndTimeAgree ==
    \A e \in EventsOfType("operation_complete") :
        \E r \in DOMAIN results :
            /\ results[r].operation = events[e].operation
            /\ results[r].success = events[e].success
            /\ results[r].execution_time_ms = events[e].execution_time_ms
            /\ "error" \in DOMAIN events[e] =>
                  /\ "error" \in DOMAIN results[r]
                  /\ results[r].error = events[e].error

(* C23. Every invocation of run_all eventually emits `complete` and        *)
(* returns its response, provided each per-operation invocation            *)
(* eventually responds or faults.  No action is enabled once the handler   *)
(* has been left, so a run that is over without its `complete` event       *)
(* never emits it.                                                         *)
C23_EndsWithComplete ==
    RunOver =>
        /\ EventsOfType("complete") # {}
        /\ http_response.status_code = 200

(* The handler that an exception has left stays left.                      *)
C23_AbortedIsFinal == [][pc = "aborted" => pc' = "aborted"]_vars

(* C23, as far as it holds: a run none of whose emissions raises is never  *)
(* left by an exception, every position before the end has a next step,    *)
(* and a run that is over has emitted `complete` last.                     *)
C23_WhenChannelAccepts ==
    /\ emit_failed = 0 => pc # "aborted"
    /\ pc \notin {"done", "aborted"} => ENABLED Next
    /\ RunReturned =>
          /\ EventsOfType("complete") = {Len(events)}
          /\ http_response.status_code = 200

(* The same under weak fairness of the handler's steps: the server thread  *)
(* that handles the request keeps running, and every blocking call         *)
(* returns or raises.                                                      *)
FairSpec == Spec /\ WF_vars(Next)

C23_Terminates == <>RunOver

----------------------------------------------------------------------------
(* The payloads of the catalog and the fields the routes read.             *)

\* The fields of the request body that the handler of a route reads
\* (its data.get calls).
Reads(endpoint) ==
    CASE endpoint \in {"/api/insert_one", "/api/save"} -> {"document"}
      [] endpoint = "/api/insert_many" -> {"documents"}
      [] endpoint = "/api/insert" -> {"documents", "document"}
      [] endpoint = "/api/find" -> {"filter", "projection", "limit"}
      [] endpoint = "/api/find_one" -> {"filter", "projection"}
      [] endpoint \in {"/api/find_one_and_delete", "/api/delete_one",
                       "/api/delete_many", "/api/count",
                       "/api/count_documents"} -> {"filter"}
      [] endpoint \in {"/api/find_one_and_replace", "/api/replace_one"} ->
            {"filter", "replacement"}
      [] endpoint \in {"/api/find_one_and_update", "/api/update_one",
                       "/api/update_many"} -> {"filter", "update"}
      [] endpoint = "/api/find_and_modify" -> {"query", "update", "remove"}
      [] endpoint = "/api/update" -> {"spec", "document", "multi"}
      [] endpoint = "/api/remove" -> {"spec", "multi"}
      [] endpoint = "/api/aggregate" -> {"pipeline"}
      [] endpoint = "/api/group" -> {"key", "condition", "initial", "reduce"}
      [] endpoint = "/api/map_reduce" -> {"map", "reduce", "out"}
      [] endpoint = "/api/inline_map_reduce" -> {"map", "reduce"}
      [] endpoint = "/api/create_index" -> {"field", "direction", "unique"}
      [] endpoint = "/api/create_indexes" -> {"indexes"}
      [] endpoint = "/api/ensure_index" -> {"field", "direction"}
      [] endpoint = "/api/drop_index" -> {"index_name"}
      [] endpoint = "/api/distinct" -> {"key", "filter"}
      [] endpoint = "/api/rename" -> {"new_name"}
      [] endpoint = "/api/bulk_write" -> {"operations"}
      [] endpoint \in NoBodyRoutes -> {}

\* The fields of a payload that the route it is sent to does not read.
Unread(op) == DOMAIN op.payload \ Reads(op.endpoint)

\* The payload without the fields its route does not read.
ReadPart(op) == [k \in DOMAIN op.payload \cap Reads(op.endpoint) |-> op.payload[k]]

\* The run is the first request to a server whose database is new.
FirstRunOnNewDatabase == calls = 0 /\ runs = 1

\* The loop is about to run the step of this name.
AboutToRun(op_name) ==
    /\ test_operations = Catalog
    /\ pc = "operation_start"
    /\ test_operations[index + 1].name = op_name

(* C24. In a run started on an empty collection in which every step        *)
(* before drop_index succeeds, the index the drop_index step names         *)
(* ('email_1') has been created by an earlier step of the run and exists   *)
(* when drop_index is invoked.                                             *)
C24_DropIndexFindsIndex ==
    (AboutToRun("drop_index") /\ FirstRunOnNewDatabase /\ AllSucceeded(results)) =>
        test_operations[index + 1].payload.index_name
            \in Indexes(collections[collection])

(* What the index steps of such a run have created when drop_index is      *)
(* invoked: create_index and ensure_index both made the index of the       *)
(* default field.                                                          *)
C24_IndexesOfTheRun ==
    (AboutToRun("drop_index") /\ FirstRunOnNewDatabase /\ AllSucceeded(results)) =>
        Indexes(collections[collection]) =
            {"name_1", "department_1_salary_-1", "status_1"}

(* C25. For every descriptor of the catalog, each field of its payload is  *)
(* a field its endpoint reads, so the values written in the catalog are    *)
(* the values passed to the driver and none is replaced by a default.      *)
C25_PayloadFieldsAreRead ==
    test_operations = Catalog =>
        \A i \in DOMAIN test_operations : Unread(test_operations[i]) = {}

(* What holds instead: the call a route makes is the one it makes of the   *)
(* payload without the unread fields, and these are the filter of          *)
(* find_and_modify and remove, filter and update of update, keys of        *)
(* create_index and ensure_index, and field of distinct.                   *)
C25_UnreadFieldsAreDropped ==
    test_operations = Catalog =>
        /\ \A i \in DOMAIN test_operations :
              Route(test_operations[i].endpoint, test_operations[i].payload)
                  = Route(test_operations[i].endpoint, ReadPart(test_operations[i]))
        /\ UNION { { <<test_operations[i].name, k>> :
                        k \in Unread(test_operations[i]) } :
                    i \in DOMAIN test_operations }
           = { <<"find_and_modify", "filter">>, <<"remove", "filter">>,
               <<"update", "filter">>, <<"update", "update">>,
               <<"create_index", "keys">>, <<"ensure_index", "keys">>,
               <<"distinct", "field">> }

----------------------------------------------------------------------------
(* The shared collection handle across renames, map-reduce output and      *)
(* drops: a client calling the collection-level routes in any order.       *)

\* How many requests the client of HandleSpec sends.
MaxHandleCalls == 4

\* The `operations` lists that client sends to /api/bulk_write: entries in
\* both styles, in either order, with unknown entries among them, and
\* lists none of whose entries is known.
BulkLists ==
    { << [insertOne |-> [document |-> "Bulk User 1"]],
         [unknown |-> EmptyDict],
         [type |-> "delete", filter |-> "name=Bulk User 1"] >>,
      << [type |-> "delete", filter |-> "name=Bulk User 1"],
         [insertOne |-> [document |-> "Bulk User 1"]] >>,
      << [insertOne |-> [document |-> "Bulk User 1"], type |-> "delete",
          filter |-> "name=Alice Johnson"] >>,
      << [unknown |-> EmptyDict], [type |-> "upsert"] >>,
      << [updateOne |-> EmptyDict] >>,
      << Scalar("noop") >>,
      <<>> }

\* The requests of that client.
HandleRequests ==
    { [endpoint |-> "/api/insert_one", data |-> [document |-> "Alice Johnson"]],
      [endpoint |-> "/api/rename", data |-> [new_name |-> "test_collection_backup"]],
      [endpoint |-> "/api/rename", data |-> [new_name |-> "test_collection"]],
      [endpoint |-> "/api/rename", data |-> EmptyDict],
      [endpoint |-> "/api/map_reduce",
       data |-> [map |-> "emit(department,salary)", reduce |-> "Array.sum",
                 out |-> "test_collection"]],
      [endpoint |-> "/api/delete_many", data |-> [filter |-> "department=Intern"]],
      [endpoint |-> "/api/drop", data |-> EmptyDict] }
    \cup
    { [endpoint |-> "/api/bulk_write", data |-> [operations |-> ops]] :
        ops \in BulkLists }

(* A client calls one of these routes; the driver may raise whatever the   *)
(* call (a lost connection).                                               *)
HandleRequest ==
    /\ pc = "idle"
    /\ calls < MaxHandleCalls
    /\ \E req \in HandleRequests, fault \in BOOLEAN :
        \E m \in IF fault THEN {0}
                 ELSE Matches(req.endpoint, req.data, collection, collections) :
            \E h \in {ApiHandler(req.endpoint, req.data, collection, collections,
                                m, fault)} :
                /\ WithinDocs(h.collections)
                /\ collection' = h.collection
                /\ collections' = h.collections
                /\ exchange' = Exchange("client", req.endpoint, req.data, h)
    /\ calls' = calls + 1
    /\ UNCHANGED <<client, test_operations, pc, index, total_ops, completed,
                   results, response, raised, inflight, requests, answers,
                   events, emit_failed, clear_failed, now, start_time, op_start,
                   op_time, summary, http_response, runs, previous,
                   handlers>>

HandleNext == HandleRequest

HandleSpec == ApiInit /\ [][HandleNext]_vars

\* This step serves a request to an operation route: one of a client, or
\* one of the run.
ServedNow == calls' = calls + 1 \/ (pc = "operation_start" /\ index' = index + 1)

\* The positions of rename, bulk_write and drop in the catalog.
RenameStep == CHOOSE i \in DOMAIN Catalog : Catalog[i].name = "rename"
BulkWriteStep == CHOOSE i \in DOMAIN Catalog : Catalog[i].name = "bulk_write"
DropStep == CHOOSE i \in DOMAIN Catalog : Catalog[i].name = "drop"

(* C26. After any sequence of endpoint calls, a successful /api/drop       *)
(* leaves the shared handle on the collection named 'test_collection',     *)
(* whatever name an earlier rename gave it; a drop that raises leaves the  *)
(* handle unchanged.                                                       *)
C26_DropResetsHandle ==
    [][(ServedNow /\ exchange'.endpoint = "/api/drop") =>
          /\ exchange'.called
          /\ exchange'.response.status_code = 200 <=> exchange'.completed
          /\ IF exchange'.completed
             THEN /\ collection' = "test_collection"
                  /\ ~Exists(collections'[collection])
             ELSE /\ collection' = collection
                  /\ collections' = collections]_vars

\* A drop has succeeded and 'test_collection' exists: the handle was on
\* another name when the drop was served, and is on 'test_collection' now.
C26_Witness ==
    /\ exchange.endpoint = "/api/drop"
    /\ exchange.response.status_code = 200
    /\ Exists(collections["test_collection"])
    /\ collection = "test_collection"

\* A drop has raised while the handle was on the name a rename gave it.
C26_RaisedAfterRename ==
    /\ exchange.endpoint = "/api/drop"
    /\ exchange.response.status_code = 500
    /\ collection = "test_collection_backup"

(* C27. After a collection is dropped, a handle obtained for the name      *)
(* 'test_collection' refers to a collection with zero documents; in        *)
(* particular after a run whose rename and drop both succeed, the          *)
(* collection the handle is reset to is empty.                             *)
C27_EmptyAfterDrop ==
    /\ (exchange.endpoint = "/api/drop" /\ exchange.completed) =>
            Count(collections["test_collection"]) = 0
    /\ (RunReturned /\ test_operations = Catalog /\ exchange.by = "run"
            /\ results[RenameStep].success /\ results[DropStep].success) =>
            /\ collection = "test_collection"
            /\ Count(collections[collection]) = 0

(* What holds of C27: the drop of 'test_collection' itself leaves no       *)
(* document under that name, and so does the drop that ends a run whose    *)
(* rename succeeded.                                                       *)
C27_DropOfTestCollection ==
    [][(ServedNow /\ exchange'.endpoint = "/api/drop" /\ exchange'.completed
            /\ (collection = "test_collection"
                \/ (exchange'.by = "run" /\ results[RenameStep].success))) =>
          /\ collection' = "test_collection"
          /\ Count(collections'[collection']) = 0]_vars

(* C28. A successful rename switches the shared handle to the new name,    *)
(* so every later operation (in the run: bulk_write and drop) acts on the  *)
(* renamed collection; a rename that raises leaves the handle on the old   *)
(* name and the old collection untouched.                                  *)
C28_RenameMovesHandle ==
    [][/\ (ServedNow /\ exchange'.endpoint = "/api/rename") =>
              IF exchange'.completed
              THEN /\ collection' = exchange'.data.new_name
                   /\ collection' # collection
                   /\ collections'[collection'] = collections[collection]
                   /\ ~Exists(collections'[collection])
              ELSE /\ collection' = collection
                   /\ collections' = collections
       /\ (ServedNow /\ exchange'.by = "run" /\ index' > RenameStep
            /\ results[RenameStep].success) =>
              /\ collection = Catalog[RenameStep].payload.new_name
              /\ index' = BulkWriteStep =>
                    /\ collection' = collection
                    /\ Exists(collections'[collection])
              /\ (index' = DropStep /\ exchange'.completed) =>
                    ~Exists(collections'[collection])]_vars

\* The run has served bulk_write after a rename that succeeded.
C28_Witness ==
    /\ test_operations = Catalog
    /\ index = BulkWriteStep
    /\ Len(results) = BulkWriteStep
    /\ results[RenameStep].success
    /\ results[BulkWriteStep].success
    /\ collection = "test_collection_backup"
    /\ Exists(collections[collection])

----------------------------------------------------------------------------
(* The entries of a bulk_write request.                                    *)

\* An entry the route is said to recognise: one in MongoDB style, or one
\* whose `type` is a legacy type.
Recognised(op) ==
    /\ IsObject(op)
    /\ \/ DOMAIN op \cap BulkKinds # {}
       \/ "type" \in DOMAIN op /\ op.type \in LegacyTypes

\* The pymongo request of a recognised entry, the MongoDB-style key taking
\* precedence over `type`.
ClassOf(op) ==
    IF DOMAIN op \cap BulkKinds # {}
    THEN [insertOne |-> "InsertOne", updateOne |-> "UpdateOne",
          updateMany |-> "UpdateMany", deleteOne |-> "DeleteOne",
          deleteMany |-> "DeleteMany", replaceOne |-> "ReplaceOne"]
            [CHOOSE k \in DOMAIN op \cap BulkKinds : TRUE]
    ELSE [insert |-> "InsertOne", update |-> "UpdateOne", delete |-> "DeleteOne",
          replace |-> "ReplaceOne"][op.type]

\* The requests of the recognised entries, in the order of the entries.
RecognisedRequests(operations) ==
    LET recognised == SelectSeq(operations, Recognised)
    IN  [i \in DOMAIN recognised |-> ClassOf(recognised[i])]

\* The last exchange is a bulk_write request with a list of operations.
BulkWriteServed ==
    /\ exchange.endpoint = "/api/bulk_write"
    /\ "operations" \in DOMAIN exchange.data

\* The entry is an object and, when recognised, holds the fields its
\* conversion subscripts.
Convertible(op) == IsObject(op) /\ "raises" \notin DOMAIN BulkOp(op)

(* C30. For /api/bulk_write the recognised entries of `operations` are     *)
(* executed in their request order as one driver call and unrecognised     *)
(* entries are skipped without error; the endpoint returns 400 without     *)
(* calling the driver only when no entry is recognised, and an entry in    *)
(* MongoDB style takes precedence over a legacy `type` on the same entry.  *)
C30_BulkWriteEntries ==
    BulkWriteServed =>
        LET expected == RecognisedRequests(exchange.data.operations)
        IN  IF expected = <<>>
            THEN AnsweredFailure(400) /\ ~exchange.called
            ELSE /\ exchange.called
                 /\ Routed = Call("bulk_write", [requests |-> expected])
                 /\ exchange.response.status_code # 400

(* C30 for the lists all of whose entries are objects that hold the        *)
(* fields of their request.                                                *)
C30_ConvertibleEntries ==
    (BulkWriteServed
        /\ \A i \in DOMAIN exchange.data.operations :
              Convertible(exchange.data.operations[i])) =>
        LET expected == RecognisedRequests(exchange.data.operations)
        IN  IF expected = <<>>
            THEN AnsweredFailure(400) /\ ~exchange.called
            ELSE /\ exchange.called
                 /\ Routed = Call("bulk_write", [requests |-> expected])
                 /\ exchange.response.status_code # 400

\* An entry carrying both styles has been executed as its MongoDB-style
\* request, after a document had been inserted.
C30_PrecedenceSeen ==
    /\ BulkWriteServed
    /\ exchange.completed
    /\ \E i \in DOMAIN exchange.data.operations :
          {"insertOne", "type"} \subseteq DOMAIN exchange.data.operations[i]
    /\ Count(collections[collection]) = 2

----------------------------------------------------------------------------
(* Several POST /api/run_all requests handled at the same time. The server *)
(* serves requests concurrently (it serves the requests a run addresses to *)
(* it while it handles the run), db_ops is one object of the module        *)
(* (app.py:34) and no lock is held across a run: results and results_lock  *)
(* are locals of each invocation (app.py:592-593). Each request to an      *)
(* operation route is served in one step.                                  *)

\* The run_all requests handled at once.
Handlers == 1 .. MaxConcurrent

\* The catalog these runs iterate: the last descriptors of Catalog.
ConcurrentCatalog ==
    SubSeq(Catalog, Len(Catalog) - MaxConcurrentOps + 1, Len(Catalog))

\* The database when the requests arrive: new, or holding 'test_collection'.
ConcurrentInit ==
    /\ client = TRUE
    /\ test_operations = ConcurrentCatalog
    /\ pc = "idle"
    /\ index = 0
    /\ total_ops = 0
    /\ completed = 0
    /\ results = <<>>
    /\ response = NoResponse
    /\ raised = ""
    /\ inflight = {}
    /\ requests = <<>>
    /\ answers = <<>>
    /\ events = <<>>
    /\ emit_failed = 0
    /\ clear_failed = FALSE
    /\ now = 0
    /\ start_time = 0
    /\ op_start = 0
    /\ op_time = 0
    /\ summary = None
    /\ http_response = NoResponse
    /\ collection = "test_collection"
    /\ \E c \in {Absent, [n |-> 1, indexes |-> {}]} :
          collections = [nm \in Names |-> IF nm = collection THEN c ELSE Absent]
    /\ exchange = NoExchange
    /\ calls = 0
    /\ runs = 0
    /\ previous = <<>>
    /\ handlers = [r \in Handlers |->
                      [pc |-> "idle", index |-> 0, results |-> <<>>, left |-> <<>>]]

\* The variables of the single run, which these runs leave alone.
runvars == <<client, test_operations, pc, index, total_ops, completed, results,
             response, raised, inflight, requests, answers, events, emit_failed,
             clear_failed, now, start_time, op_start, op_time, summary,
             http_response, exchange, calls, runs, previous>>

(* The handler of request r starts: its own results list, and              *)
(* clear_collection() on the shared handle (app.py:592-600).               *)
ConcurrentRunAll(r) ==
    /\ handlers[r].pc = "idle"
    /\ collections' =
            Driver("clear_collection", EmptyDict, collection, collections,
                   Count(collections[collection])).db
    /\ handlers' = [handlers EXCEPT ![r] =
            [pc |-> AfterOperation(0, Len(test_operations)), index |-> 0,
             results |-> <<>>, left |-> <<collection, collections'>>]]
    /\ UNCHANGED collection
    /\ UNCHANGED runvars

(* One turn of the loop of request r: its self-addressed request is served *)
(* by the route, on the shared handle, and the result is appended to the   *)
(* list of r (app.py:754-780, 825-829).                                    *)
ConcurrentRunOperation(r) ==
    /\ handlers[r].pc = "operation_start"
    /\ LET i == handlers[r].index + 1
           op == test_operations[i]
       IN  \E m \in Matches(op.endpoint, op.payload, collection, collections) :
            \E h \in {ApiHandler(op.endpoint, op.payload, collection, collections,
                                m, FALSE)} :
                /\ WithinDocs(h.collections)
                /\ collection' = h.collection
                /\ collections' = h.collections
                /\ handlers' = [handlers EXCEPT ![r] =
                        [pc |-> AfterOperation(i, Len(test_operations)),
                         index |-> i,
                         results |-> Append(handlers[r].results,
                                            ResultEntry(op.name, h.response, 0)),
                         left |-> <<h.collection, h.collections>>]]
    /\ UNCHANGED runvars

(* Request r is answered with its results (app.py:831-855). *)
ConcurrentRunReturn(r) ==
    /\ handlers[r].pc = "summary"
    /\ handlers' = [handlers EXCEPT ![r].pc = "done"]
    /\ UNCHANGED <<collection, collections>>
    /\ UNCHANGED runvars

ConcurrentNext ==
    \/ \E r \in Handlers : ConcurrentRunAll(r)
    \/ \E r \in Handlers : ConcurrentRunOperation(r)
    \/ \E r \in Handlers : ConcurrentRunReturn(r)

ConcurrentSpec == ConcurrentInit /\ [][ConcurrentNext]_vars

\* Request r is between two steps of its loop.
BetweenSteps(r) == handlers[r].pc = "operation_start" /\ handlers[r].index >= 1

(* C29. When run_all is invoked while another run_all invocation is still  *)
(* executing, the operations the two runs apply to the shared handle are   *)
(* not interleaved: no operation of one run (its rename, drop and handle   *)
(* reset included) takes effect between two consecutive steps of the       *)
(* other, and each run's results list holds only its own operations.       *)
C29_RunsNotInterleaved ==
    \A r \in DOMAIN handlers :
        /\ BetweenSteps(r) => handlers[r].left = <<collection, collections>>
        /\ \A i \in DOMAIN handlers[r].results :
              handlers[r].results[i].operation = test_operations[i].name

(* What holds of C29: the results list of a run holds one entry per step   *)
(* it has made, in its own order, whatever the other run does.             *)
C29_ResultsAreOwn ==
    \A r \in DOMAIN handlers :
        /\ Len(handlers[r].results) = handlers[r].index
        /\ \A i \in DOMAIN handlers[r].results :
              handlers[r].results[i].operation = test_operations[i].name

\* The drop of one run has removed the collection the rename of the other
\* had just created, and reset the handle under it.
C29_DropBetweenSteps ==
    \E r \in DOMAIN handlers :
        /\ BetweenSteps(r)
        /\ test_operations[handlers[r].index].name = "rename"
        /\ handlers[r].results[handlers[r].index].success
        /\ collection = "test_collection"
        /\ ~Exists(collections["test_collection_backup"])

====
